---- MODULE Spec2Model ----
(***************************************************************************)
(* Model of the voice-chat backend (backend/app): the WebSocket session    *)
(* handler websocket_voice_chat, the AudioBuffer accumulator, the          *)
(* processing cycle _process_audio_buffer (transcribe -> generate ->       *)
(* synthesize), the ClaudeService conversation history and the             *)
(* TokenManager verification used by the handshake.                        *)
(*                                                                         *)
(* The three pipeline stages are blocking calls: the handler is modelled   *)
(* with a program counter pc that says which call it is suspended in, and  *)
(* the client keeps sending frames into the transport queue inbox          *)
(* meanwhile.                                                              *)
(***************************************************************************)
EXTENDS Integers, Sequences, FiniteSets, TLC

\* ------------------------------------------------------------------ bounds
\* Total number of frames the client sends on the connection.
MaxFrames == 4
\* Largest clock reading (hours since the tokens were issued) at handshake.
MaxTime == 1
\* Hours the clock of the token endpoints advances.
MaxClock == 1
\* Chunks an AudioBuffer on its own is given between two drains.
MaxChunks == 3
\* add_to_history calls made on a ClaudeService on its own.
MaxAdds == 23

\* ------------------------------------------------------- program constants
\* AudioBuffer(window_seconds=5.0) in websocket_voice_chat
window_seconds == 5
\* AudioBuffer.__init__ default sample_rate
sample_rate == 16000
\* ClaudeService.add_to_history keeps the last 20 messages
HistoryCap == 20
WS_1008_POLICY_VIOLATION == 1008
WS_1011_SERVER_ERROR == 1011
\* Config.access_token_expire_hours and Config.refresh_token_expire_days defaults
access_token_expire_hours == 1
refresh_token_expire_days == 30
HTTP_200_OK == 200
HTTP_400_BAD_REQUEST == 400
HTTP_401_UNAUTHORIZED == 401
HTTP_403_FORBIDDEN == 403
HTTP_500_INTERNAL_SERVER_ERROR == 500

None == "None"

VARIABLES
    state,                  \* lifecycle: ("Connecting",) "AwaitingAuth", "Active", "Closed"
    pc,                     \* where the handler is suspended
    inbox,                  \* frames sent by the client, not yet received
    nsent,                  \* frames sent by the client so far
    nrecv,                  \* frames received by the handler so far
    audio_chunks,           \* AudioBuffer.audio_chunks
    total_bytes,            \* AudioBuffer.total_bytes
    buffered_audio,         \* local of _process_audio_buffer
    transcription,          \* local of _process_audio_buffer
    response_text,          \* local of _process_audio_buffer
    conversation_history,   \* ClaudeService.conversation_history
    services,               \* the module-level service singletons
    email,                  \* verified identity of the connection
    close_code,             \* code the server passed to websocket.close, 0 if none
    cur,                    \* the frame being handled (last one received)
    out,                    \* events sent since cur was received
    calls,                  \* stage calls made since cur was received
    results,                \* how the stage calls of calls ended: "ok" or "fail"
    send_raised,            \* a websocket.send_json raised while handling cur
    before,                 \* session fields, and the clock, when cur was received
    accepted,               \* the credential the handshake verified, and when
    config,                 \* config: the key ring, the allowlist, cors_origins, debug
    clock,                  \* datetime.now(timezone.utc), in hours
    verified,               \* the last _verify_token call under this ring and clock
    issued,                 \* the last token created, and the ring it was created under
    ret,                    \* the last AudioBuffer call and what it returned
    added,                  \* add_to_history calls so far
    phase,                  \* the process: "importing" app.main, "serving" or "exited"
    allow_origins,          \* allow_origins given to CORSMiddleware
    upgrade,                \* the last WebSocket upgrade request and what became of it
    sessions,               \* the connections open side by side in the process
    passed,                 \* messages= of the last client.messages.create call
    singletons              \* _whisper_service, _claude_service, _tts_service and the handlers using them

vars == <<state, pc, inbox, nsent, nrecv, audio_chunks, total_bytes,
          buffered_audio, transcription, response_text, conversation_history,
          services, email, close_code, cur, out, calls, results,
          send_raised, before, accepted, config, clock, verified, issued,
          ret, added, phase, allow_origins, upgrade, sessions, passed,
          singletons>>

\* The process around the session followed: its start, and the connections
\* served beside it.
processVars == <<phase, allow_origins, upgrade, sessions, passed, singletons>>

\* What a WebSocket session leaves alone: the key ring and the clock, the
\* records of the calls made outside a session, and the rest of the process.
unitVars == <<config, clock, verified, issued, ret, added, processVars>>

\* ------------------------------------------------------------ credentials
\* config.jwt_secret and config.jwt_secret_previous of the running process.
jwt_secret == config.jwt_secret
jwt_secret_previous == config.jwt_secret_previous

\* Config.jwt_secret raises ValueError: the secret is unset, empty or one of
\* the two placeholders.
SecretMissing ==
    jwt_secret \in {None, "", "CHANGE_ME", "REDACTED_JWT_PLACEHOLDER"}

\* A token is the signed payload: the key it was signed with, its expiry
\* instant and the claims type and sub.
AccessToken == [key |-> "k_current", exp |-> 1, type |-> "access", sub |-> "a@x.org"]
RefreshToken == [key |-> "k_current", exp |-> 1, type |-> "refresh", sub |-> "a@x.org"]
\* An access token signed with a secret the server never had.
ForgedToken == [key |-> "k_other", exp |-> 1, type |-> "access", sub |-> "a@x.org"]

\* jwt.decode(token, secret, algorithms=["HS256"]) at clock reading now:
\* the signature is verified first, then the exp claim (exp <= now is expired).
JwtDecode(token, secret, now) ==
    IF token.key # secret THEN "InvalidSignatureError"
    ELSE IF token.exp <= now THEN "ExpiredSignatureError"
    ELSE "ok"

\* Secrets without the fallback to the previous secret.
Secrets_CurrentOnly == <<jwt_secret>>

\* The secrets _decode tries, in order.
Secrets ==
    IF jwt_secret_previous # None /\ jwt_secret_previous # ""
    THEN <<jwt_secret, jwt_secret_previous>>
    ELSE <<jwt_secret>>

\* DecodeRun that treats an expired signature like any other failure: it goes
\* on to the next secret and raises the last exception.
RECURSIVE DecodeRun_ContinuesOnExpiry(_, _, _)
DecodeRun_ContinuesOnExpiry(token, i, now) ==
    IF i > Len(Secrets) THEN [result |-> "InvalidSignatureError", tried |-> <<>>]
    ELSE LET r == JwtDecode(token, Secrets[i], now)
             rest == DecodeRun_ContinuesOnExpiry(token, i + 1, now)
         IN  IF r = "ok" THEN [result |-> "ok", tried |-> <<Secrets[i]>>]
             ELSE [result |-> IF i = Len(Secrets) THEN r ELSE rest.result,
                   tried |-> <<Secrets[i]>> \o rest.tried]

\* The loop of _decode from the i-th secret on: how it ends (result) and the
\* secrets it passed to jwt.decode, in order (tried).
RECURSIVE DecodeRun(_, _, _)
DecodeRun(token, i, now) ==
    IF i > Len(Secrets) THEN [result |-> "InvalidSignatureError", tried |-> <<>>]
    ELSE LET r == JwtDecode(token, Secrets[i], now)
             rest == DecodeRun(token, i + 1, now)
         IN  IF r = "ok" THEN [result |-> "ok", tried |-> <<Secrets[i]>>]
             ELSE IF r = "ExpiredSignatureError"
             THEN [result |-> r, tried |-> <<Secrets[i]>>]
             ELSE [result |-> rest.result, tried |-> <<Secrets[i]>> \o rest.tried]

\* How the loop of _decode ends from the i-th secret on: "ok" or the
\* exception raised.
DecodeFrom(token, i, now) == DecodeRun(token, i, now).result

\* TokenManager._decode: reading config.jwt_secret may raise ValueError
\* before any secret is tried.
Decode(token, now) ==
    IF SecretMissing THEN "ValueError" ELSE DecodeFrom(token, 1, now)

\* _verify_token without the check of the type claim.
VerifyToken_NoTypeCheck(token, expected_type, now) ==
    LET r == Decode(token, now)
    IN  IF r = "ExpiredSignatureError" THEN "Token expired"
        ELSE IF r # "ok" THEN "Invalid token"
        ELSE IF token.sub = "" THEN "Token missing subject"
        ELSE ""

\* _verify_token that checks the subject before the type.
VerifyToken_SubjectFirst(token, expected_type, now) ==
    LET r == Decode(token, now)
    IN  IF r = "ExpiredSignatureError" THEN "Token expired"
        ELSE IF r # "ok" THEN "Invalid token"
        ELSE IF token.sub = "" THEN "Token missing subject"
        ELSE IF token.type # expected_type THEN "Invalid token type"
        ELSE ""

\* TokenManager._verify_token: "" when the token is accepted, else the
\* detail of the HTTPException raised ("ValueError" when that exception
\* passes through: it is neither of the two jwt exceptions caught).
VerifyToken(token, expected_type, now) ==
    LET r == Decode(token, now)
    IN  IF r = "ValueError" THEN "ValueError"
        ELSE IF r = "ExpiredSignatureError" THEN "Token expired"
        ELSE IF r # "ok" THEN "Invalid token"
        ELSE IF token.type # expected_type THEN "Invalid token type"
        ELSE IF token.sub = "" THEN "Token missing subject"
        ELSE ""

\* verify_access_token that expects whatever type the token states.
VerifyAccessToken_AnyKind(token, now) == VerifyToken(token, token.type, now)

\* TokenManager.verify_access_token
VerifyAccessToken(token, now) == VerifyToken(token, "access", now)

\* TokenManager.verify_refresh_token
VerifyRefreshToken(token, now) == VerifyToken(token, "refresh", now)

\* create_access_token that signs with the previous secret when there is one.
create_access_token_SignsPrevious(user_email, now) ==
    [key |-> IF Len(Secrets) > 1 THEN jwt_secret_previous ELSE jwt_secret,
     exp |-> now + access_token_expire_hours, type |-> "access", sub |-> user_email]

\* TokenManager.create_access_token at clock reading now (hours), with the
\* default expires_delta.
create_access_token(user_email, now) ==
    [key |-> jwt_secret, exp |-> now + access_token_expire_hours,
     type |-> "access", sub |-> user_email]

\* TokenManager.create_refresh_token at clock reading now (hours), with the
\* default expires_delta.
create_refresh_token(user_email, now) ==
    [key |-> jwt_secret, exp |-> now + refresh_token_expire_days * 24,
     type |-> "refresh", sub |-> user_email]

\* ------------------------------------------------------------------ frames
\* Bytes are a sequence of runs [src, len]: len bytes that came in frame src.
ByteRun(src, len) == IF len = 0 THEN <<>> ELSE <<[src |-> src, len |-> len]>>

RECURSIVE ByteLen(_)
ByteLen(b) == IF b = <<>> THEN 0 ELSE Head(b).len + ByteLen(Tail(b))

\* Sizes of the binary frames the client sends: empty, 2 s and 5 s of audio.
ChunkSizes == {0, 64000, 160000}

\* Text frame bodies the client sends.
TextBodies == {"not json", "[1]", "{type:end_audio}", "{type:ping}",
               "{type:other}", "{token:access}", "{token:refresh}",
               "{token:forged}"}

\* The value of a message without a "token" member.
NoToken == [key |-> "", exp |-> 0, type |-> "", sub |-> ""]

\* No credential verified by the handshake yet.
NoCredential == [token |-> NoToken, now |-> 0]

\* json.loads on those bodies: ok is FALSE for a JSONDecodeError, obj says
\* whether the value is a JSON object, type and token are its members
\* (has_token: whether "token" is there).
JsonLoads(text) ==
    CASE text = "not json"         -> [ok |-> FALSE, obj |-> FALSE, type |-> "", has_token |-> FALSE, token |-> NoToken]
      [] text = "[1]"              -> [ok |-> TRUE, obj |-> FALSE, type |-> "", has_token |-> FALSE, token |-> NoToken]
      [] text = "{type:end_audio}" -> [ok |-> TRUE, obj |-> TRUE, type |-> "end_audio", has_token |-> FALSE, token |-> NoToken]
      [] text = "{type:ping}"      -> [ok |-> TRUE, obj |-> TRUE, type |-> "ping", has_token |-> FALSE, token |-> NoToken]
      [] text = "{type:other}"     -> [ok |-> TRUE, obj |-> TRUE, type |-> "other", has_token |-> FALSE, token |-> NoToken]
      [] text = "{token:access}"   -> [ok |-> TRUE, obj |-> TRUE, type |-> "", has_token |-> TRUE, token |-> AccessToken]
      [] text = "{token:refresh}"  -> [ok |-> TRUE, obj |-> TRUE, type |-> "", has_token |-> TRUE, token |-> RefreshToken]
      [] text = "{token:forged}"   -> [ok |-> TRUE, obj |-> TRUE, type |-> "", has_token |-> TRUE, token |-> ForgedToken]

BinaryFrame(n, size) == [seq |-> n, kind |-> "bytes", data |-> ByteRun(n, size), text |-> ""]
TextFrame(n, body) == [seq |-> n, kind |-> "text", data |-> <<>>, text |-> body]
DisconnectFrame(n) == [seq |-> n, kind |-> "disconnect", data |-> <<>>, text |-> ""]

Frames(n) ==
    {BinaryFrame(n, k) : k \in ChunkSizes}
    \cup {TextFrame(n, b) : b \in TextBodies}
    \cup {DisconnectFrame(n)}

NoFrame == [seq |-> 0, kind |-> "none", data |-> <<>>, text |-> ""]

\* The client has closed its end: its disconnect is queued behind q's frames.
ClientGone(q) == \E i \in DOMAIN q : q[i].kind = "disconnect"

\* ------------------------------------------------------------- AudioBuffer
\* AudioBuffer.__init__
bytes_per_second == sample_rate * 2

\* AudioBuffer.buffer_duration, as the exact fraction <<numerator, denominator>>.
buffer_duration(tb) ==
    IF bytes_per_second # 0 THEN <<tb, bytes_per_second>> ELSE <<0, 1>>

\* fraction >= whole number of seconds
DurationGE(d, secs) == d[1] >= secs * d[2]
\* fraction > 0
DurationPositive(d) == d[1] > 0

\* add_chunk that counts the chunks instead of their bytes.
add_chunk_CountsChunks(chunks, tb, data) ==
    [audio_chunks |-> Append(chunks, data),
     total_bytes |-> tb + 1,
     ret |-> DurationGE(buffer_duration(tb + 1), window_seconds)]

\* AudioBuffer.add_chunk: the new fields and the returned flag.
add_chunk(chunks, tb, data) ==
    [audio_chunks |-> Append(chunks, data),
     total_bytes |-> tb + ByteLen(data),
     ret |-> DurationGE(buffer_duration(tb + ByteLen(data)), window_seconds)]

\* is_ready with a strict comparison.
is_ready_Strict(tb) ==
    buffer_duration(tb)[1] > window_seconds * buffer_duration(tb)[2]

\* AudioBuffer.is_ready
is_ready(tb) == DurationGE(buffer_duration(tb), window_seconds)

\* get_audio joining the chunks newest first
RECURSIVE get_audio_NewestFirst(_)
get_audio_NewestFirst(chunks) ==
    IF chunks = <<>> THEN <<>> ELSE get_audio_NewestFirst(Tail(chunks)) \o Head(chunks)

\* AudioBuffer.get_audio: b''.join(self.audio_chunks)
RECURSIVE get_audio(_)
get_audio(chunks) ==
    IF chunks = <<>> THEN <<>> ELSE Head(chunks) \o get_audio(Tail(chunks))

\* clear that resets the byte count and keeps the chunks.
clear_KeepsChunks == [audio_chunks |-> audio_chunks, total_bytes |-> 0]

\* clear that forgets to reset the byte count.
clear_KeepsTotal == [audio_chunks |-> <<>>, total_bytes |-> total_bytes]

\* AudioBuffer.clear: the new fields.
clear == [audio_chunks |-> <<>>, total_bytes |-> 0]

\* ------------------------------------------------------------ ClaudeService
\* add_to_history that keeps the first 20 entries instead of the last 20.
add_to_history_KeepsOldest(history, role, content) ==
    LET h == Append(history, [role |-> role, content |-> content])
    IN  IF Len(h) > HistoryCap THEN SubSeq(h, 1, HistoryCap) ELSE h

\* ClaudeService.add_to_history
add_to_history(history, role, content) ==
    LET h == Append(history, [role |-> role, content |-> content])
    IN  IF Len(h) > HistoryCap THEN SubSeq(h, Len(h) - HistoryCap + 1, Len(h)) ELSE h

\* "not user_message or not user_message.strip()" / "not text or not text.strip()"
IsBlank(t) == t \in {"", " "}

\* Texts the transcribe stage returns, replies the generate stage returns,
\* audio the synthesize stage returns.
Transcripts == {"", "hello"}
Replies == {"", "hi there"}
Audios == {"wav"}

\* base64.b64encode(audio_response).decode("utf-8")
B64(audio) == IF audio = "wav" THEN "d2F2" ELSE ""

\* ------------------------------------------------- calls outside a session
\* No _verify_token call made under the present ring and clock.
NoVerification ==
    [op |-> "none", token |-> NoToken, expected_type |-> "", detail |-> "",
     sub |-> None, tried |-> <<>>]

\* What a verify_*_token call made now by op leaves: the detail of the
\* HTTPException raised ("" if none), the subject returned and the secrets
\* _decode tried.
Verification(op, token, expected_type, detail) ==
    [op |-> op, token |-> token, expected_type |-> expected_type,
     detail |-> detail, sub |-> IF detail = "" THEN token.sub ELSE None,
     tried |-> IF SecretMissing THEN <<>> ELSE DecodeRun(token, 1, clock).tried]

\* The key ring without its allowlist.
Ring(c) == [jwt_secret |-> c.jwt_secret, jwt_secret_previous |-> c.jwt_secret_previous]

\* No issuance request answered yet.
NoIssue ==
    [op |-> "none", identity |-> None, status_code |-> 0, detail |-> "",
     access_token |-> NoToken, refresh_token |-> NoToken,
     ring |-> [jwt_secret |-> "", jwt_secret_previous |-> None]]

\* AuthResponse of an issuance endpoint, with the identity the request
\* established (the local email) and the ring the tokens were signed under.
Issued(op, identity, access, refresh) ==
    [op |-> op, identity |-> identity, status_code |-> HTTP_200_OK, detail |-> "",
     access_token |-> access, refresh_token |-> refresh, ring |-> Ring(config)]

\* HTTPException raised by an issuance endpoint: nothing is issued. identity
\* is the email established before the exception, None if there was none.
Rejected(op, identity, code, detail) ==
    [op |-> op, identity |-> identity, status_code |-> code, detail |-> detail,
     access_token |-> NoToken, refresh_token |-> NoToken, ring |-> NoIssue.ring]

\* No AudioBuffer call made yet. A call leaves its name, the flag or bytes it
\* returned, and the fields the buffer had when it was made.
NoCall ==
    [op |-> "none", value |-> FALSE, audio |-> <<>>, had_chunks |-> <<>>,
     had_total |-> 0, duration |-> <<0, 1>>]

\* ------------------------------------------------------------------ events
ErrorEvent(code, message) == [type |-> "error", code |-> code, message |-> message]
TranscriptionEvent(t) == [type |-> "transcription", text |-> t]
ResponseTextOnly(t) == [type |-> "response", text |-> t, audio |-> None]
ResponseFull(t, a) ==
    [type |-> "response", text |-> t, audio |-> a, processing_time |-> "elapsed"]
BufferingEvent(tb) ==
    [type |-> "buffering", buffered_seconds |-> buffer_duration(tb),
     target_seconds |-> window_seconds]
InfoEvent == [type |-> "info", message |-> "No audio to process"]
PongEvent == [type |-> "pong"]


\* ----------------------------------------------------------------- session
\* The locals of a websocket_voice_chat call that has done nothing yet: a
\* fresh AudioBuffer, no identity, nothing received or sent; and the
\* module-level singletons not yet created.
SessionFresh ==
    /\ pc = "recv"
    /\ inbox = <<>>
    /\ nsent = 0
    /\ nrecv = 0
    /\ audio_chunks = <<>>
    /\ total_bytes = 0
    /\ buffered_audio = <<>>
    /\ transcription = None
    /\ response_text = None
    /\ conversation_history = <<>>
    /\ services = [whisper |-> FALSE, claude |-> FALSE, tts |-> FALSE]
    /\ email = None
    /\ close_code = 0
    /\ cur = NoFrame
    /\ out = <<>>
    /\ calls = <<>>
    /\ results = <<>>
    /\ send_raised = FALSE
    /\ before = [state |-> "AwaitingAuth", audio_chunks |-> <<>>, total_bytes |-> 0,
                 history |-> <<>>, calls |-> <<>>, clock |-> 0]
    /\ accepted = NoCredential

\* State at websocket.accept(): a fresh AudioBuffer, no identity, and the
\* module-level singletons not yet created.
SessionInit ==
    /\ state = "AwaitingAuth"
    /\ SessionFresh

\* The connections served side by side.
Conns == {1, 2}

\* No WebSocket upgrade requested yet.
NoUpgrade == [origin |-> None, accepted |-> FALSE, close_code |-> 0]

\* No connection has come in on c yet.
NoSession == [state |-> "Idle", found |-> <<>>]

\* No API call made yet by any connection.
NoTurn == [conn |-> 0, n |-> 0, messages |-> <<>>]

\* Handlers of websocket_voice_chat running side by side on the event loop.
MaxHandlers == 3
Handlers == 1..MaxHandlers

\* The three module-level services.
ServiceNames == {"whisper", "claude", "tts"}

\* _whisper_service = _claude_service = _tts_service = None, nothing
\* constructed, no handler started. An instance is named by its rank among
\* the instances constructed of its class; 0 is None.
NoServices == [s \in ServiceNames |-> 0]
NoSingletons ==
    [inst |-> NoServices,
     built |-> NoServices,
     raised |-> FALSE,
     handler |-> [h \in Handlers |-> [pc |-> "idle", got |-> NoServices, close_code |-> 0]]]

\* A process that imported app.main under its configuration and serves: the
\* middleware allows the configured origins, no connection has come in.
ProcessInit ==
    /\ phase = "serving"
    /\ allow_origins = config.cors_origins
    /\ upgrade = NoUpgrade
    /\ sessions = [c \in Conns |-> NoSession]
    /\ passed = NoTurn
    /\ singletons = NoSingletons

\* A deployment in the grace period of a rotation: both secrets configured.
Init ==
    /\ SessionInit
    /\ config = [jwt_secret |-> "k_current", jwt_secret_previous |-> "k_previous",
                 allowlist |-> {"a@x.org"}, cors_origins |-> {"https://app"},
                 debug |-> FALSE]
    /\ clock = 0
    /\ verified = NoVerification
    /\ issued = NoIssue
    /\ ret = NoCall
    /\ added = 0
    /\ ProcessInit

\* The client sends one more frame; after its disconnect it sends nothing.
ClientSend ==
    /\ state # "Closed"
    /\ nsent < MaxFrames
    /\ ~ClientGone(inbox)
    /\ \E f \in Frames(nsent + 1) : inbox' = Append(inbox, f)
    /\ nsent' = nsent + 1
    /\ UNCHANGED <<state, pc, nrecv, audio_chunks, total_bytes, buffered_audio,
                   transcription, response_text, conversation_history, services,
                   email, close_code, cur, out, calls, results, send_raised, before,
                   accepted, unitVars>>

\* websocket.receive(): the handler takes the next frame off the transport.
Receive ==
    /\ inbox # <<>>
    /\ cur' = Head(inbox)
    /\ inbox' = Tail(inbox)
    /\ nrecv' = nrecv + 1
    /\ before' = [state |-> state, audio_chunks |-> audio_chunks,
                  total_bytes |-> total_bytes, history |-> conversation_history,
                  calls |-> calls, clock |-> clock]

\* The handler leaves its loop: code is what it passed to websocket.close
\* (0 when it closed nothing).
Close(code) ==
    /\ state' = "Closed"
    /\ pc' = "done"
    /\ close_code' = code

\* SendThen with the failure of a send swallowed: the events that did not
\* go out are dropped and the handler goes on.
SendThen_SwallowsFailure(sent, evs, then) ==
    \/ /\ out' = sent \o evs
       /\ pc' = then
       /\ UNCHANGED <<state, close_code, send_raised>>
    \/ /\ ClientGone(inbox')
       /\ \E k \in 0..(Len(evs) - 1) :
            out' = sent \o SubSeq(evs, 1, k)
       /\ send_raised' = TRUE
       /\ pc' = then
       /\ UNCHANGED <<state, close_code>>

\* websocket.send_json of the events evs, one after the other, following the
\* events sent already; `then` is where the handler goes on. With the client
\* gone a send may still go through, or raise WebSocketDisconnect (the loop
\* breaks) or another exception (the loop closes with 1011 and breaks).
SendThen(sent, evs, then) ==
    \/ /\ out' = sent \o evs
       /\ pc' = then
       /\ UNCHANGED <<state, close_code, send_raised>>
    \/ /\ ClientGone(inbox')
       /\ \E k \in 0..(Len(evs) - 1) :
            out' = sent \o SubSeq(evs, 1, k)
       /\ send_raised' = TRUE
       /\ \E code \in {0, WS_1011_SERVER_ERROR} : Close(code)

\* get_whisper_service, get_claude_service, get_tts_service in turn; failAt
\* is the constructor that raises (0: none). A service that exists is reused.
InitServices(sv, failAt) ==
    [whisper |-> sv.whisper \/ failAt \notin {1},
     claude  |-> sv.claude \/ failAt \notin {1, 2},
     tts     |-> sv.tts \/ failAt \notin {1, 2, 3}]

\* Only a constructor that runs can raise.
CanFailAt(sv, failAt) ==
    \/ failAt = 0
    \/ failAt = 1 /\ ~sv.whisper
    \/ failAt = 2 /\ ~sv.claude
    \/ failAt = 3 /\ ~sv.tts

\* websocket_voice_chat, from receive_json() to the start of the loop, with
\* the clock reading now when the token is verified.
HandshakeAt(now) ==
    /\ state = "AwaitingAuth"
    /\ Receive
    /\ out' = <<>>
    /\ calls' = <<>>
    /\ results' = <<>>
    /\ UNCHANGED <<nsent, audio_chunks, total_bytes, buffered_audio, transcription,
                   response_text, conversation_history, send_raised, unitVars>>
    /\ LET f == Head(inbox)
           j == JsonLoads(f.text)
       IN  \/ /\ f.kind = "disconnect"
              /\ Close(0)
              /\ UNCHANGED <<email, services, accepted>>
           \/ /\ \/ f.kind = "bytes"
                 \/ f.kind = "text" /\ (~j.ok \/ ~j.obj)
              /\ Close(WS_1011_SERVER_ERROR)
              /\ UNCHANGED <<email, services, accepted>>
           \/ /\ f.kind = "text" /\ j.ok /\ j.obj /\ ~j.has_token
              /\ Close(WS_1008_POLICY_VIOLATION)
              /\ UNCHANGED <<email, services, accepted>>
           \/ /\ f.kind = "text" /\ j.ok /\ j.obj /\ j.has_token
              /\ IF VerifyAccessToken(j.token, now) = "ValueError"
                 THEN \* not an HTTPException: the outer except closes with 1011
                      /\ Close(WS_1011_SERVER_ERROR)
                      /\ UNCHANGED <<email, services, accepted>>
                 ELSE IF VerifyAccessToken(j.token, now) # ""
                 THEN /\ Close(WS_1008_POLICY_VIOLATION)
                      /\ UNCHANGED <<email, services, accepted>>
                 ELSE /\ email' = j.token.sub
                      /\ accepted' = [token |-> j.token, now |-> now]
                      /\ \E failAt \in 0..3 :
                           /\ CanFailAt(services, failAt)
                           /\ services' = InitServices(services, failAt)
                           /\ IF failAt # 0
                              THEN Close(WS_1011_SERVER_ERROR)
                              ELSE /\ state' = "Active"
                                   /\ pc' = "recv"
                                   /\ UNCHANGED close_code

\* The handshake, whenever it happens in the first MaxTime hours.
Handshake == \E now \in 0..MaxTime : HandshakeAt(now)

\* _process_audio_buffer taking the audio without clearing the buffer
ProcessAudioBuffer_KeepsBuffer(chunks) ==
    /\ buffered_audio' = get_audio(chunks)
    /\ audio_chunks' = chunks
    /\ total_bytes' = ByteLen(get_audio(chunks))
    /\ transcription' = None
    /\ response_text' = None
    /\ calls' = <<"transcribe">>
    /\ IF get_audio(chunks) = <<>>
       THEN /\ results' = <<"fail">>
            /\ SendThen(<<>>, <<ErrorEvent("transcription_failed", "Failed to transcribe audio")>>, "recv")
       ELSE /\ results' = <<>>
            /\ pc' = "transcribe"
            /\ out' = <<>>
            /\ UNCHANGED <<state, close_code, send_raised>>

\* _process_audio_buffer up to the call of whisper.transcribe, on the
\* accumulator's chunks (the accumulator is drained and cleared first).
ProcessAudioBuffer(chunks) ==
    /\ buffered_audio' = get_audio(chunks)
    /\ audio_chunks' = clear.audio_chunks
    /\ total_bytes' = clear.total_bytes
    /\ transcription' = None
    /\ response_text' = None
    /\ calls' = <<"transcribe">>
    /\ IF get_audio(chunks) = <<>>
       THEN \* WhisperService.transcribe: "Audio data is empty"
            /\ results' = <<"fail">>
            /\ SendThen(<<>>, <<ErrorEvent("transcription_failed", "Failed to transcribe audio")>>, "recv")
       ELSE /\ results' = <<>>
            /\ pc' = "transcribe"
            /\ out' = <<>>
            /\ UNCHANGED <<state, close_code, send_raised>>

\* A loop turn that calls no stage leaves the cycle's locals alone.
NoCycle ==
    /\ calls' = <<>>
    /\ results' = <<>>
    /\ UNCHANGED <<buffered_audio, transcription, response_text>>

\* The frame changes nothing and sends nothing.
Ignore ==
    /\ NoCycle
    /\ out' = <<>>
    /\ UNCHANGED <<state, pc, close_code, send_raised, audio_chunks, total_bytes>>

\* OnBinary reporting the duration of the chunk, not of the accumulator.
OnBinary_ReportsChunk(data) ==
    LET a == add_chunk(audio_chunks, total_bytes, data)
    IN  IF is_ready(a.total_bytes)
        THEN ProcessAudioBuffer(a.audio_chunks)
        ELSE /\ audio_chunks' = a.audio_chunks
             /\ total_bytes' = a.total_bytes
             /\ NoCycle
             /\ SendThen(<<>>, <<BufferingEvent(ByteLen(data))>>, "recv")

\* Loop body: a binary frame with data.
OnBinary(data) ==
    LET a == add_chunk(audio_chunks, total_bytes, data)
    IN  IF is_ready(a.total_bytes)
        THEN ProcessAudioBuffer(a.audio_chunks)
        ELSE /\ audio_chunks' = a.audio_chunks
             /\ total_bytes' = a.total_bytes
             /\ NoCycle
             /\ SendThen(<<>>, <<BufferingEvent(a.total_bytes)>>, "recv")

\* OnEndAudio that processes only a full window.
OnEndAudio_RequiresReady ==
    IF is_ready(total_bytes)
    THEN ProcessAudioBuffer(audio_chunks)
    ELSE /\ NoCycle
         /\ SendThen(<<>>, <<InfoEvent>>, "recv")
         /\ UNCHANGED <<audio_chunks, total_bytes>>

\* Loop body: msg_type == "end_audio".
OnEndAudio ==
    IF DurationPositive(buffer_duration(total_bytes))
    THEN ProcessAudioBuffer(audio_chunks)
    ELSE /\ NoCycle
         /\ SendThen(<<>>, <<InfoEvent>>, "recv")
         /\ UNCHANGED <<audio_chunks, total_bytes>>

\* OnPing with the ping branch missing: the frame is an unknown type.
OnPing_Unhandled == Ignore

\* Loop body: msg_type == "ping".
OnPing ==
    /\ NoCycle
    /\ SendThen(<<>>, <<PongEvent>>, "recv")
    /\ UNCHANGED <<audio_chunks, total_bytes>>

\* Loop body: a text frame.
OnText(text) ==
    LET j == JsonLoads(text)
    IN  IF ~j.ok THEN Ignore                    \* json.JSONDecodeError: logged
        ELSE IF ~j.obj
        THEN \* text_data.get raises: except Exception closes with 1011
             /\ Close(WS_1011_SERVER_ERROR)
             /\ NoCycle
             /\ out' = <<>>
             /\ UNCHANGED <<audio_chunks, total_bytes, send_raised>>
        ELSE IF j.type = "end_audio" THEN OnEndAudio
        ELSE IF j.type = "ping" THEN OnPing
        ELSE Ignore                             \* unknown type: logged

\* Loop body after receive(): dispatch on the message.
OnMessage(f) ==
    IF f.kind = "disconnect"
    THEN /\ Close(0)
         /\ NoCycle
         /\ out' = <<>>
         /\ UNCHANGED <<audio_chunks, total_bytes, send_raised>>
    ELSE IF f.kind = "bytes" /\ f.data # <<>> THEN OnBinary(f.data)
    ELSE IF f.kind = "text" /\ f.text # "" THEN OnText(f.text)
    ELSE Ignore

\* HandleFrame with the cycle run as a background task: the loop goes on
\* receiving while a stage call is pending.
HandleFrame_Concurrent ==
    /\ state = "Active"
    /\ Receive
    /\ UNCHANGED <<nsent, conversation_history, services, email, accepted, unitVars>>
    /\ OnMessage(Head(inbox))

\* HandleFrame that verifies the session's credential again on each frame
\* and closes the session once the credential is refused.
HandleFrame_Reverifies ==
    /\ state = "Active"
    /\ pc = "recv"
    /\ Receive
    /\ UNCHANGED <<nsent, conversation_history, services, email, accepted, unitVars>>
    /\ IF VerifyAccessToken(accepted.token, clock) # ""
       THEN /\ Close(WS_1008_POLICY_VIOLATION)
            /\ NoCycle
            /\ out' = <<>>
            /\ UNCHANGED <<audio_chunks, total_bytes, send_raised>>
       ELSE OnMessage(Head(inbox))

\* One turn of the "while True" loop of websocket_voice_chat: receive a
\* message and handle it, up to the next suspension.
HandleFrame ==
    /\ state = "Active"
    /\ pc = "recv"
    /\ Receive
    /\ UNCHANGED <<nsent, conversation_history, services, email, accepted, unitVars>>
    /\ OnMessage(Head(inbox))

\* What the stage-return steps leave alone.
CycleFrame ==
    UNCHANGED <<inbox, nsent, nrecv, audio_chunks, total_bytes, buffered_audio,
                services, email, cur, before, accepted, unitVars>>

\* TranscribeFails without the try/except: the exception reaches the loop's
\* except clause, which closes the connection with 1011.
TranscribeFails_Propagates ==
    /\ state = "Active" /\ pc = "transcribe"
    /\ CycleFrame
    /\ results' = Append(results, "fail")
    /\ Close(WS_1011_SERVER_ERROR)
    /\ UNCHANGED <<out, send_raised, transcription, response_text,
                   conversation_history, calls>>

\* whisper.transcribe raises.
TranscribeFails ==
    /\ state = "Active" /\ pc = "transcribe"
    /\ CycleFrame
    /\ results' = Append(results, "fail")
    /\ SendThen(out, <<ErrorEvent("transcription_failed", "Failed to transcribe audio")>>, "recv")
    /\ UNCHANGED <<transcription, response_text, conversation_history, calls>>

\* GetResponseCall with the transcription held back: it is sent only when
\* the generate stage is not reached.
GetResponseCall_HoldsTranscription(user_message) ==
    /\ calls' = Append(calls, "generate")
    /\ IF IsBlank(user_message)
       THEN /\ results' = results \o <<"ok", "fail">>
            /\ SendThen(Append(out, TranscriptionEvent(user_message)),
                        <<ErrorEvent("claude_failed", "AI response failed")>>, "recv")
            /\ UNCHANGED conversation_history
       ELSE /\ results' = Append(results, "ok")
            /\ conversation_history' = add_to_history(conversation_history, "user", user_message)
            /\ out' = out
            /\ pc' = "generate"
            /\ UNCHANGED <<state, close_code, send_raised>>

\* claude.get_response(user_message) up to the API call, after the
\* transcription went out: a blank message raises at once, else the user
\* message joins the history and the call is made.
GetResponseCall(user_message) ==
    /\ calls' = Append(calls, "generate")
    /\ IF IsBlank(user_message)
       THEN /\ results' = results \o <<"ok", "fail">>
            /\ SendThen(Append(out, TranscriptionEvent(user_message)),
                        <<ErrorEvent("claude_failed", "AI response failed")>>, "recv")
            /\ UNCHANGED conversation_history
       ELSE /\ results' = Append(results, "ok")
            /\ conversation_history' = add_to_history(conversation_history, "user", user_message)
            /\ out' = Append(out, TranscriptionEvent(user_message))
            /\ pc' = "generate"
            /\ UNCHANGED <<state, close_code, send_raised>>

\* whisper.transcribe returns a text: it is sent to the client, then the
\* generate stage is called.
TranscribeSucceeds ==
    /\ state = "Active" /\ pc = "transcribe"
    /\ CycleFrame
    /\ \E t \in Transcripts :
         /\ transcription' = t
         /\ \/ GetResponseCall(t)
            \/ \* the send of the transcription raises
               /\ ClientGone(inbox')
               /\ send_raised' = TRUE
               /\ results' = Append(results, "ok")
               /\ \E code \in {0, WS_1011_SERVER_ERROR} : Close(code)
               /\ UNCHANGED <<out, calls, conversation_history>>
    /\ UNCHANGED response_text

\* GenerateFails with the except branch only logging: no event is sent.
GenerateFails_Silent ==
    /\ state = "Active" /\ pc = "generate"
    /\ CycleFrame
    /\ results' = Append(results, "fail")
    /\ pc' = "recv"
    /\ UNCHANGED <<out, state, close_code, send_raised, transcription,
                   response_text, conversation_history, calls>>

\* GenerateFails with a retry: the failed API call is made again.
GenerateFails_Retries ==
    /\ state = "Active" /\ pc = "generate"
    /\ CycleFrame
    /\ Len(calls) < 4
    /\ results' = results
    /\ calls' = Append(calls, "generate")
    /\ UNCHANGED <<pc, out, state, close_code, send_raised, transcription,
                   response_text, conversation_history>>

\* GenerateFails without the return: the error goes out and the cycle goes
\* on to the synthesize stage.
GenerateFails_FallsThrough ==
    /\ state = "Active" /\ pc = "generate"
    /\ CycleFrame
    /\ results' = Append(results, "fail")
    /\ out' = Append(out, ErrorEvent("claude_failed", "AI response failed"))
    /\ calls' = Append(calls, "synthesize")
    /\ pc' = "synthesize"
    /\ UNCHANGED <<state, close_code, send_raised, transcription, response_text,
                   conversation_history>>

\* The API call of claude.get_response raises.
GenerateFails ==
    /\ state = "Active" /\ pc = "generate"
    /\ CycleFrame
    /\ results' = Append(results, "fail")
    /\ SendThen(out, <<ErrorEvent("claude_failed", "AI response failed")>>, "recv")
    /\ UNCHANGED <<transcription, response_text, conversation_history, calls>>

\* tts.text_to_speech(text) up to the synthesis: a blank text raises at once
\* and the reply goes out as text only.
TextToSpeechCall(text) ==
    /\ calls' = Append(calls, "synthesize")
    /\ IF IsBlank(text)
       THEN /\ results' = results \o <<"ok", "fail">>
            /\ SendThen(out, <<ResponseTextOnly(text)>>, "recv")
       ELSE /\ results' = Append(results, "ok")
            /\ pc' = "synthesize"
            /\ UNCHANGED <<out, state, close_code, send_raised>>

\* The API call returns a reply: it joins the history and the synthesize
\* stage is called.
GenerateSucceeds ==
    /\ state = "Active" /\ pc = "generate"
    /\ CycleFrame
    /\ \E r \in Replies :
         /\ response_text' = r
         /\ conversation_history' = add_to_history(conversation_history, "assistant", r)
         /\ TextToSpeechCall(r)
    /\ UNCHANGED transcription

\* SynthesizeFails treated like the other stages: an error event.
SynthesizeFails_SendsError ==
    /\ state = "Active" /\ pc = "synthesize"
    /\ CycleFrame
    /\ results' = Append(results, "fail")
    /\ SendThen(out, <<ErrorEvent("tts_failed", "Speech synthesis failed")>>, "recv")
    /\ UNCHANGED <<transcription, response_text, conversation_history, calls>>

\* tts.text_to_speech raises: text-only response.
SynthesizeFails ==
    /\ state = "Active" /\ pc = "synthesize"
    /\ CycleFrame
    /\ results' = Append(results, "fail")
    /\ SendThen(out, <<ResponseTextOnly(response_text)>>, "recv")
    /\ UNCHANGED <<transcription, response_text, conversation_history, calls>>

\* tts.text_to_speech returns audio: full response.
SynthesizeSucceeds ==
    /\ state = "Active" /\ pc = "synthesize"
    /\ CycleFrame
    /\ results' = Append(results, "ok")
    /\ \E a \in Audios :
         SendThen(out, <<ResponseFull(response_text, B64(a))>>, "recv")
    /\ UNCHANGED <<transcription, response_text, conversation_history, calls>>

Next ==
    \/ ClientSend
    \/ Handshake
    \/ HandleFrame
    \/ TranscribeFails
    \/ TranscribeSucceeds
    \/ GenerateFails
    \/ GenerateSucceeds
    \/ SynthesizeFails
    \/ SynthesizeSucceeds

Spec == Init /\ [][Next]_vars

\* ------------------------------------------------ token endpoints and ring
\* The secrets: the one the server starts with, the one it had before, and
\* one it has not used yet (the next one, or a forger's).
Keys == {"k_current", "k_previous", "k_other"}

\* The key rings a server starts under: jwt_secret is never empty
\* (Config.jwt_secret raises), the previous secret may be absent (None) or
\* set to the empty string.
Rings ==
    [jwt_secret : {"k_current"}, jwt_secret_previous : {"k_previous", None, ""},
     allowlist : {{"a@x.org"}}, cors_origins : {{"https://app"}}, debug : {FALSE}]

\* The tokens a client may present: any signing key, type and subject,
\* expiring one hour after the server started.
Tokens ==
    [key : Keys, exp : {1}, type : {"access", "refresh"}, sub : {"", "a@x.org"}]

\* ... and the tokens of the last AuthResponse.
Presentable == Tokens \cup ({issued.access_token, issued.refresh_token} \ {NoToken})

\* What verify_google_token makes of the id_token posted: ValueError for
\* "invalid", no email claim for "no email", else the email.
Assertions == {"invalid", "no email", "a@x.org", "b@x.org"}

\* The variables of the WebSocket session, which the token endpoints and the
\* operator leave alone.
sessionVars ==
    <<state, pc, inbox, nsent, nrecv, audio_chunks, total_bytes, buffered_audio,
      transcription, response_text, conversation_history, services, email,
      close_code, cur, out, calls, results, send_raised, before, accepted>>

\* A server started under any ring, before any request.
InitToken ==
    /\ SessionInit
    /\ config \in Rings
    /\ clock = 0
    /\ verified = NoVerification
    /\ issued = NoIssue
    /\ ret = NoCall
    /\ added = 0
    /\ ProcessInit

\* GoogleLogin without the allowlist check.
GoogleLogin_NoAllowlist ==
    /\ phase = "serving"
    /\ \E a \in Assertions :
         issued' =
            IF a = "invalid"
            THEN Rejected("google", None, HTTP_401_UNAUTHORIZED, "Invalid Google token")
            ELSE IF a = "no email"
            THEN Rejected("google", None, HTTP_400_BAD_REQUEST, "Token does not contain email")
            ELSE Issued("google", a, create_access_token(a, clock),
                        create_refresh_token(a, clock))
    /\ UNCHANGED <<sessionVars, processVars, config, clock, verified, ret, added>>

\* POST /auth/google: verify_google_token, check_allowlist, then the two
\* tokens (create_access_token raises ValueError without a secret, which
\* "except Exception" turns into a 500).
GoogleLogin ==
    /\ phase = "serving"
    /\ \E a \in Assertions :
         issued' =
            IF a = "invalid"
            THEN Rejected("google", None, HTTP_401_UNAUTHORIZED, "Invalid Google token")
            ELSE IF a = "no email"
            THEN Rejected("google", None, HTTP_400_BAD_REQUEST, "Token does not contain email")
            ELSE IF a \notin config.allowlist
            THEN Rejected("google", a, HTTP_403_FORBIDDEN, "Email not authorized")
            ELSE IF SecretMissing
            THEN Rejected("google", a, HTTP_500_INTERNAL_SERVER_ERROR, "Internal server error")
            ELSE Issued("google", a, create_access_token(a, clock),
                        create_refresh_token(a, clock))
    /\ UNCHANGED <<sessionVars, processVars, config, clock, verified, ret, added>>

\* RefreshAccessToken that refuses a subject no longer on the allowlist.
RefreshAccessToken_ChecksAllowlist ==
    /\ phase = "serving"
    /\ \E token \in Presentable :
         LET v == Verification("refresh", token, "refresh", VerifyRefreshToken(token, clock))
         IN  /\ verified' = v
             /\ issued' =
                    IF v.detail = "ValueError"
                    THEN Rejected("refresh", None, HTTP_500_INTERNAL_SERVER_ERROR,
                                  "Internal server error")
                    ELSE IF v.detail # ""
                    THEN Rejected("refresh", None, HTTP_401_UNAUTHORIZED, v.detail)
                    ELSE IF v.sub \notin config.allowlist
                    THEN Rejected("refresh", v.sub, HTTP_403_FORBIDDEN, "Email not authorized")
                    ELSE Issued("refresh", v.sub, create_access_token(v.sub, clock), NoToken)
    /\ UNCHANGED <<sessionVars, processVars, config, clock, ret, added>>

\* RefreshAccessToken that also renews the refresh token.
RefreshAccessToken_RenewsRefresh ==
    /\ phase = "serving"
    /\ \E token \in Presentable :
         LET v == Verification("refresh", token, "refresh", VerifyRefreshToken(token, clock))
         IN  /\ verified' = v
             /\ issued' =
                    IF v.detail # ""
                    THEN Rejected("refresh", None, HTTP_401_UNAUTHORIZED, v.detail)
                    ELSE Issued("refresh", v.sub, create_access_token(v.sub, clock),
                                create_refresh_token(v.sub, clock))
    /\ UNCHANGED <<sessionVars, processVars, config, clock, ret, added>>

\* POST /auth/refresh: verify_refresh_token, then a new access token (a
\* ValueError for the missing secret becomes a 500).
RefreshAccessToken ==
    /\ phase = "serving"
    /\ \E token \in Presentable :
         LET v == Verification("refresh", token, "refresh", VerifyRefreshToken(token, clock))
         IN  /\ verified' = v
             /\ issued' =
                    IF v.detail = "ValueError"
                    THEN Rejected("refresh", None, HTTP_500_INTERNAL_SERVER_ERROR,
                                  "Internal server error")
                    ELSE IF v.detail # ""
                    THEN Rejected("refresh", None, HTTP_401_UNAUTHORIZED, v.detail)
                    ELSE Issued("refresh", v.sub, create_access_token(v.sub, clock), NoToken)
    /\ UNCHANGED <<sessionVars, processVars, config, clock, ret, added>>

\* GET /auth/me: the header does not start with "Bearer ", or it carries a
\* token.
GetCurrentUser ==
    /\ phase = "serving"
    /\ \/ verified' = [NoVerification EXCEPT !.op = "me",
                                             !.detail = "Invalid authorization header"]
       \/ \E token \in Presentable :
            verified' = Verification("me", token, "access", VerifyAccessToken(token, clock))
    /\ UNCHANGED <<sessionVars, processVars, config, clock, issued, ret, added>>

\* The credential check of the WebSocket handshake: verify_access_token on
\* the token of the first message (a failure closes with 1008).
WsVerify ==
    /\ \E token \in Presentable :
         verified' = Verification("ws", token, "access", VerifyAccessToken(token, clock))
    /\ UNCHANGED <<sessionVars, processVars, config, clock, issued, ret, added>>

\* An hour passes.
Tick ==
    /\ clock < MaxClock
    /\ clock' = clock + 1
    /\ verified' = NoVerification
    /\ UNCHANGED <<sessionVars, processVars, config, issued, ret, added>>

\* The operator rotates the secret (steps 1 to 4 of the rotation helper):
\* a secret not used before becomes the current one, the current one the
\* previous one, and the server restarts.
RotateSecret ==
    /\ jwt_secret = "k_current"
    /\ config' = [config EXCEPT !.jwt_secret = "k_other", !.jwt_secret_previous = jwt_secret]
    /\ verified' = NoVerification
    /\ UNCHANGED <<sessionVars, processVars, clock, issued, ret, added>>

\* The operator removes the previous secret (step 5), and the server restarts.
RetirePrevious ==
    /\ jwt_secret_previous # None
    /\ config' = [config EXCEPT !.jwt_secret_previous = None]
    /\ verified' = NoVerification
    /\ UNCHANGED <<sessionVars, processVars, clock, issued, ret, added>>

NextToken ==
    \/ GoogleLogin
    \/ RefreshAccessToken
    \/ GetCurrentUser
    \/ WsVerify
    \/ Tick
    \/ RotateSecret
    \/ RetirePrevious

SpecToken == InitToken /\ [][NextToken]_vars

\* ------------------------------------------------- an AudioBuffer on its own
\* Sizes of the chunks added: nothing, one byte, half a window less one
\* byte, half a window, a window less one byte.
BufferChunkSizes == {0, 1, 79999, 80000, 159999}

\* Everything but the AudioBuffer's fields and the record of its last call.
notBuffer ==
    <<state, pc, inbox, nsent, nrecv, buffered_audio, transcription,
      response_text, conversation_history, services, email, close_code, cur,
      out, calls, results, send_raised, before, accepted, config, clock,
      verified, issued, added, processVars>>

\* AudioBuffer(window_seconds=5.0): no chunk, no byte.
InitBuffer == Init

\* buffer.add_chunk(audio_data)
AddChunk ==
    /\ Len(audio_chunks) < MaxChunks
    /\ \E size \in BufferChunkSizes :
         LET a == add_chunk(audio_chunks, total_bytes,
                            ByteRun(Len(audio_chunks) + 1, size))
         IN  /\ audio_chunks' = a.audio_chunks
             /\ total_bytes' = a.total_bytes
             /\ ret' = [op |-> "add_chunk", value |-> a.ret, audio |-> <<>>,
                        had_chunks |-> audio_chunks, had_total |-> total_bytes,
               duration |-> <<0, 1>>]
    /\ UNCHANGED notBuffer

\* buffer.is_ready()
IsReady ==
    /\ ret' = [op |-> "is_ready", value |-> is_ready(total_bytes), audio |-> <<>>,
               had_chunks |-> audio_chunks, had_total |-> total_bytes,
               duration |-> <<0, 1>>]
    /\ UNCHANGED <<audio_chunks, total_bytes>>
    /\ UNCHANGED notBuffer

\* buffer.buffer_duration
BufferDuration ==
    /\ ret' = [op |-> "buffer_duration", value |-> FALSE, audio |-> <<>>,
               had_chunks |-> audio_chunks, had_total |-> total_bytes,
               duration |-> buffer_duration(total_bytes)]
    /\ UNCHANGED <<audio_chunks, total_bytes>>
    /\ UNCHANGED notBuffer

\* The drain of _process_audio_buffer: buffer.get_audio() then buffer.clear().
Drain ==
    /\ ret' = [op |-> "drain", value |-> FALSE, audio |-> get_audio(audio_chunks),
               had_chunks |-> audio_chunks, had_total |-> total_bytes,
               duration |-> <<0, 1>>]
    /\ audio_chunks' = clear.audio_chunks
    /\ total_bytes' = clear.total_bytes
    /\ UNCHANGED notBuffer

NextBuffer ==
    \/ AddChunk
    \/ IsReady
    \/ BufferDuration
    \/ Drain

SpecBuffer == InitBuffer /\ [][NextBuffer]_vars

\* ----------------------------------------------- a ClaudeService on its own
\* Everything but the history and the count of the entries added to it.
notHistory ==
    <<state, pc, inbox, nsent, nrecv, audio_chunks, total_bytes, buffered_audio,
      transcription, response_text, services, email, close_code, cur, out,
      calls, results, send_raised, before, accepted, config, clock, verified,
      issued, ret, processVars>>

\* ClaudeService.__init__: an empty history.
InitHistory == Init

\* The role of the n-th entry: user and assistant messages alternate.
RoleOf(n) == IF n % 2 = 1 THEN "user" ELSE "assistant"

\* self.add_to_history(role, content); the n-th entry added carries n.
AddToHistory ==
    /\ added < MaxAdds
    /\ added' = added + 1
    /\ conversation_history' =
          add_to_history(conversation_history, RoleOf(added + 1), added + 1)
    /\ UNCHANGED notHistory

\* ClaudeService.clear_history
ClearHistory ==
    /\ conversation_history' = <<>>
    /\ UNCHANGED added
    /\ UNCHANGED notHistory

NextHistory ==
    \/ AddToHistory
    \/ ClearHistory

SpecHistory == InitHistory /\ [][NextHistory]_vars

\* ------------------------------------- connections side by side in a process
\* client.messages.create calls made by the connections together.
MaxTurns == 3

\* Everything but the connections, the ClaudeService singleton and its
\* history, and the messages of the last API call.
notSessions ==
    <<state, pc, inbox, nsent, nrecv, audio_chunks, total_bytes, buffered_audio,
      transcription, response_text, email, close_code, cur, out, calls,
      results, send_raised, before, accepted, config, clock, verified, issued,
      ret, added, phase, allow_origins, upgrade, singletons>>

\* A process serving, with no connection yet and no service constructed.
InitSessions == Init

\* get_claude_service(): the history of the ClaudeService it returns. The
\* module-level instance is constructed (with an empty history) only while
\* _claude_service is None; afterwards every caller gets that instance.
get_claude_service(sv, history) == IF sv.claude THEN history ELSE <<>>

\* What connection c says and what the model replies to it.
Said(c) == [conn |-> c, text |-> "hello"]
ReplyTo(c) == [conn |-> c, text |-> "hi there"]

\* websocket_voice_chat on connection c, from accept() to the start of the
\* loop: the handshake is refused, or the connection becomes Active with the
\* services get_*_service() return.
Connect(c) ==
    /\ sessions[c].state = "Idle"
    /\ \/ /\ sessions' = [sessions EXCEPT ![c] = [state |-> "Closed", found |-> <<>>]]
          /\ UNCHANGED <<services, conversation_history>>
       \/ /\ services' = InitServices(services, 0)
          /\ conversation_history' = get_claude_service(services, conversation_history)
          /\ sessions' = [sessions EXCEPT ![c] =
                [state |-> "Active",
                 found |-> get_claude_service(services, conversation_history)]]
    /\ UNCHANGED passed
    /\ UNCHANGED notSessions

\* claude.get_response(user_message) in a cycle of connection c. The call
\* does not yield to the event loop: no other connection runs inside it.
Turn(c) ==
    /\ sessions[c].state = "Active"
    /\ passed.n < MaxTurns
    /\ LET h == add_to_history(conversation_history, "user", Said(c))
       IN  /\ passed' = [conn |-> c, n |-> passed.n + 1, messages |-> h]
           /\ \/ conversation_history' = add_to_history(h, "assistant", ReplyTo(c))
              \/ conversation_history' = h        \* the API call raises
    /\ UNCHANGED <<sessions, services>>
    /\ UNCHANGED notSessions

\* Connection c ends: the loop breaks and the finally clause logs.
Disconnect(c) ==
    /\ sessions[c].state = "Active"
    /\ sessions' = [sessions EXCEPT ![c].state = "Closed"]
    /\ UNCHANGED <<services, conversation_history, passed>>
    /\ UNCHANGED notSessions

NextSessions ==
    \E c \in Conns :
        \/ Connect(c)
        \/ Turn(c)
        \/ Disconnect(c)

SpecSessions == InitSessions /\ [][NextSessions]_vars

\* -------------------------------------------------- a client streaming audio
\* Frames the streaming client sends: its token, then audio chunks.
MaxStream == 6

\* Sizes of the chunks streamed: an empty frame, 1 s and 2 s of audio.
StreamChunkSizes == {0, 32000, 64000}

\* The client of test_phase2: the token first, then binary chunks; it may
\* close its end instead of sending one more chunk.
StreamFrames(n) ==
    IF n = 1 THEN {TextFrame(1, "{token:access}")}
    ELSE {BinaryFrame(n, k) : k \in StreamChunkSizes} \cup {DisconnectFrame(n)}

\* The streaming client sends its next frame.
ClientStream ==
    /\ state # "Closed"
    /\ nsent < MaxStream
    /\ ~ClientGone(inbox)
    /\ \E f \in StreamFrames(nsent + 1) : inbox' = Append(inbox, f)
    /\ nsent' = nsent + 1
    /\ UNCHANGED <<state, pc, nrecv, audio_chunks, total_bytes, buffered_audio,
                   transcription, response_text, conversation_history, services,
                   email, close_code, cur, out, calls, results, send_raised, before,
                   accepted, unitVars>>

\* The handshake, verifying the token at the present clock reading.
HandshakeNow == HandshakeAt(clock)

InitStream == Init

NextStream ==
    \/ ClientStream
    \/ HandshakeNow
    \/ HandleFrame
    \/ TranscribeFails
    \/ TranscribeSucceeds
    \/ GenerateFails
    \/ GenerateSucceeds
    \/ SynthesizeFails
    \/ SynthesizeSucceeds
    \/ Tick

SpecStream == InitStream /\ [][NextStream]_vars

\* The streaming session as the event loop runs it: the handler is resumed
\* whenever a frame is there for it, every stage call returns, and time
\* passes. Nothing obliges the client to send.
FairStream ==
    /\ SpecStream
    /\ WF_vars(HandshakeNow)
    /\ WF_vars(HandleFrame)
    /\ WF_vars(TranscribeFails \/ TranscribeSucceeds)
    /\ WF_vars(GenerateFails \/ GenerateSucceeds)
    /\ WF_vars(SynthesizeFails \/ SynthesizeSucceeds)
    /\ WF_vars(Tick)

\* ------------------------------------------------------ the process starting
\* What a deployment configures: the signing secret (unset, empty, one of the
\* placeholders, or a real one), the origin allowlist (missing or set) and
\* debug mode.
Deployments ==
    [jwt_secret : {None, "", "CHANGE_ME", "REDACTED_JWT_PLACEHOLDER", "k_current"},
     jwt_secret_previous : {None}, allowlist : {{"a@x.org"}},
     cors_origins : {{}, {"https://app"}}, debug : BOOLEAN]

\* websocket.headers.get("origin", "") of an upgrade request.
Origins == {"", "https://app", "https://evil"}

\* Everything but the start of the process and the requests it answers.
notStartup ==
    <<sessionVars, config, clock, ret, added, sessions, passed, singletons>>

\* python -m app.main under any deployment: app.main is being imported.
InitStartup ==
    /\ SessionInit
    /\ config \in Deployments
    /\ clock = 0
    /\ verified = NoVerification
    /\ issued = NoIssue
    /\ ret = NoCall
    /\ added = 0
    /\ phase = "importing"
    /\ allow_origins = {}
    /\ upgrade = NoUpgrade
    /\ sessions = [c \in Conns |-> NoSession]
    /\ passed = NoTurn
    /\ singletons = NoSingletons

\* Startup that allows all origins whenever none is configured.
Startup_AllowsAllAlways ==
    /\ phase = "importing"
    /\ allow_origins' = IF config.cors_origins = {} THEN {"*"} ELSE config.cors_origins
    /\ phase' = "serving"
    /\ UNCHANGED <<upgrade, verified, issued>>
    /\ UNCHANGED notStartup

\* The import of app.main: the CORS set-up raises RuntimeError when no origin
\* is configured outside debug mode; config.jwt_secret is not read.
Startup ==
    /\ phase = "importing"
    /\ IF config.cors_origins = {}
       THEN IF config.debug
            THEN /\ allow_origins' = {"*"}
                 /\ phase' = "serving"
            ELSE /\ phase' = "exited"
                 /\ UNCHANGED allow_origins
       ELSE /\ allow_origins' = config.cors_origins
            /\ phase' = "serving"
    /\ UNCHANGED <<upgrade, verified, issued>>
    /\ UNCHANGED notStartup

\* OriginCheck that lets a request without Origin header through.
OriginCheck_AllowsNoHeader(origin) ==
    IF config.cors_origins # {} /\ origin # "" /\ origin \notin config.cors_origins
    THEN [origin |-> origin, accepted |-> FALSE,
          close_code |-> WS_1008_POLICY_VIOLATION]
    ELSE [origin |-> origin, accepted |-> TRUE, close_code |-> 0]

\* The origin validation of websocket_voice_chat: the origin of the upgrade
\* request is checked against config.cors_origins when that is not empty; a
\* refused request is closed with 1008 before accept().
OriginCheck(origin) ==
    IF config.cors_origins # {} /\ origin \notin config.cors_origins
    THEN [origin |-> origin, accepted |-> FALSE,
          close_code |-> WS_1008_POLICY_VIOLATION]
    ELSE [origin |-> origin, accepted |-> TRUE, close_code |-> 0]

\* websocket_voice_chat up to websocket.accept(), for any connection.
WsUpgrade ==
    /\ phase = "serving"
    /\ \E origin \in Origins : upgrade' = OriginCheck(origin)
    /\ UNCHANGED <<phase, allow_origins, verified, issued>>
    /\ UNCHANGED notStartup

NextStartup ==
    \/ Startup
    \/ GoogleLogin
    \/ RefreshAccessToken
    \/ GetCurrentUser
    \/ WsUpgrade

SpecStartup == InitStartup /\ [][NextStartup]_vars

\* --------------------------------------------------- a connection coming in
\* An upgrade request reaches the process: websocket_voice_chat has not run
\* yet and nothing is accepted.
InitConnect ==
    /\ state = "Connecting"
    /\ SessionFresh
    /\ config \in Deployments
    /\ clock = 0
    /\ verified = NoVerification
    /\ issued = NoIssue
    /\ ret = NoCall
    /\ added = 0
    /\ phase = "importing"
    /\ allow_origins = {}
    /\ upgrade = NoUpgrade
    /\ sessions = [c \in Conns |-> NoSession]
    /\ passed = NoTurn
    /\ singletons = NoSingletons

\* websocket_voice_chat up to websocket.accept() for the connection followed:
\* a refused origin is closed with 1008 and the handler returns, else the
\* connection is accepted and waits for its first message.
WsConnect ==
    /\ phase = "serving"
    /\ state = "Connecting"
    /\ \E origin \in Origins :
         /\ upgrade' = OriginCheck(origin)
         /\ IF OriginCheck(origin).accepted
            THEN /\ state' = "AwaitingAuth"
                 /\ UNCHANGED <<pc, close_code>>
            ELSE Close(WS_1008_POLICY_VIOLATION)
    /\ UNCHANGED <<inbox, nsent, nrecv, audio_chunks, total_bytes, buffered_audio,
                   transcription, response_text, conversation_history, services,
                   email, cur, out, calls, results, send_raised, before, accepted,
                   config, clock, verified, issued, ret, added, phase,
                   allow_origins, sessions, passed, singletons>>

\* The client sends its first message on the connection once it is open.
ClientFirst ==
    /\ state = "AwaitingAuth"
    /\ nsent = 0
    /\ \E f \in Frames(1) : inbox' = Append(inbox, f)
    /\ nsent' = 1
    /\ UNCHANGED <<state, pc, nrecv, audio_chunks, total_bytes, buffered_audio,
                   transcription, response_text, conversation_history, services,
                   email, close_code, cur, out, calls, results, send_raised, before,
                   accepted, unitVars>>

NextConnect ==
    \/ Startup
    \/ WsConnect
    \/ ClientFirst
    \/ Handshake

SpecConnect == InitConnect /\ [][NextConnect]_vars

\* ---------------------------------------------------------------- singletons
\* Several handlers authenticate side by side. A handler runs until it
\* awaits: websocket.accept(), receive_json() and close() yield to the event
\* loop; verify_access_token and the three get_*_service() calls do not.

\* Everything but the module-level services and the handlers.
notSingletons ==
    <<state, pc, inbox, nsent, nrecv, audio_chunks, total_bytes, buffered_audio,
      transcription, response_text, conversation_history, email, close_code,
      cur, out, calls, results, send_raised, before, accepted, config, clock,
      verified, issued, ret, added, phase, allow_origins, upgrade, sessions,
      passed>>

InitSingletons == Init

\* get_X_service() constructing a new instance on every call.
get_service_AlwaysConstructs(g, s, raises) ==
    IF g.raised THEN g
    ELSE IF raises THEN [g EXCEPT !.raised = TRUE]
    ELSE [g EXCEPT !.built[s] = @ + 1, !.inst[s] = g.built[s] + 1]

\* get_whisper_service / get_claude_service / get_tts_service on the globals
\* g: the instance is constructed and assigned only while the global is None;
\* a constructor that raises leaves it None. Not reached once an earlier call
\* of the same try block has raised.
get_service(g, s, raises) ==
    IF g.raised THEN g
    ELSE IF g.inst[s] # 0 THEN g
    ELSE IF raises THEN [g EXCEPT !.raised = TRUE]
    ELSE [g EXCEPT !.built[s] = @ + 1, !.inst[s] = g.built[s] + 1]

\* The try block of the handler: whisper, claude, tts in this order; failAt
\* is the call whose constructor raises (0: none).
get_services(g, failAt) ==
    get_service(
        get_service(
            get_service([g EXCEPT !.raised = FALSE], "whisper", failAt = 1),
            "claude", failAt = 2),
        "tts", failAt = 3)

\* Handler h is started for a new connection: accept() and then
\* receive_json() yield to the event loop.
Accept(h) ==
    /\ singletons.handler[h].pc = "idle"
    /\ singletons' = [singletons EXCEPT !.handler[h].pc = "auth"]
    /\ UNCHANGED services
    /\ UNCHANGED notSingletons

\* The auth message of handler h arrives. The token is refused and the
\* connection closed (1008), or the handler gets the three services in one
\* run on the event loop: it enters the loop with them, or closes with 1011
\* when a constructor raises.
Authenticate(h) ==
    /\ singletons.handler[h].pc = "auth"
    /\ \/ /\ singletons' = [singletons EXCEPT
                 !.handler[h].pc = "closed",
                 !.handler[h].close_code = WS_1008_POLICY_VIOLATION]
          /\ UNCHANGED services
       \/ \E failAt \in 0..3 :
            LET g == get_services(singletons, failAt)
            IN  /\ singletons' =
                      IF g.raised
                      THEN [g EXCEPT !.handler[h].pc = "closed",
                                     !.handler[h].close_code = WS_1011_SERVER_ERROR]
                      ELSE [g EXCEPT !.handler[h].pc = "active",
                                     !.handler[h].got = g.inst]
                /\ services' = [whisper |-> g.inst["whisper"] # 0,
                                claude  |-> g.inst["claude"] # 0,
                                tts     |-> g.inst["tts"] # 0]
    /\ UNCHANGED notSingletons

\* The connection of handler h ends; the module-level services stay.
Leave(h) ==
    /\ singletons.handler[h].pc = "active"
    /\ singletons' = [singletons EXCEPT !.handler[h].pc = "closed"]
    /\ UNCHANGED services
    /\ UNCHANGED notSingletons

NextSingletons ==
    \E h \in Handlers :
        \/ Accept(h)
        \/ Authenticate(h)
        \/ Leave(h)

SpecSingletons == InitSingletons /\ [][NextSingletons]_vars

\* ---------------------------------------------------------------- allowlist
\* The token endpoints while the operator changes the allowlist. Credentials
\* are stateless: the ones already issued stay in their holders' hands.

\* The allowlists the operator deploys.
Allowlists == {{}, {"a@x.org"}}

InitRevocation == InitToken

\* The service is redeployed with another AUTH_ALLOWLIST (or auth.allowlist
\* in the yaml file) and the same secrets.
Redeploy ==
    /\ \E al \in Allowlists \ {config.allowlist} :
         config' = [config EXCEPT !.allowlist = al]
    /\ verified' = NoVerification
    /\ UNCHANGED <<sessionVars, processVars, clock, issued, ret, added>>

NextRevocation ==
    \/ GoogleLogin
    \/ RefreshAccessToken
    \/ GetCurrentUser
    \/ WsVerify
    \/ Tick
    \/ Redeploy

SpecRevocation == InitRevocation /\ [][NextRevocation]_vars

\* ------------------------------------------------------------------ claims
\* The handler is suspended in a stage call: a processing cycle is in flight.
InFlight == pc \in {"transcribe", "generate", "synthesize"}

\* The terminal events (response, error) among evs.
Terminals(evs) == SelectSeq(evs, LAMBDA e : e.type \in {"response", "error"})

\* The events of type t among evs.
OfType(evs, t) == SelectSeq(evs, LAMBDA e : e.type = t)

StageOrder == <<"transcribe", "generate", "synthesize">>

\* C1: every processing cycle emits exactly one terminal event (response or
\* error), never zero and never both: none while the cycle is in flight, at
\* most one ever, and exactly one, sent last, once the cycle is over; the
\* session is then back in its receive loop. (A cycle cut short because a
\* send to a departed client raised closes the session instead.)
C1_ExactlyOneTerminal ==
    /\ Len(Terminals(out)) <= 1
    /\ InFlight => Terminals(out) = <<>>
    /\ (calls # <<>> /\ ~InFlight /\ ~send_raised) =>
          /\ Len(Terminals(out)) = 1
          /\ out[Len(out)].type \in {"response", "error"}
          /\ state = "Active" /\ pc = "recv"

\* A cycle that went through all three stages has ended with a full response.
C1_Witness ==
    /\ state = "Active" /\ pc = "recv"
    /\ results = <<"ok", "ok", "ok">>
    /\ Len(Terminals(out)) = 1
    /\ out[Len(out)].type = "response"

\* C2: in a cycle the stages are called in the order transcribe, generate,
\* synthesize, each at most once; generate is called only after transcribe
\* succeeded and synthesize only after generate succeeded; a failed stage is
\* the last one called.
C2_StageOrder ==
    /\ Len(calls) <= Len(StageOrder)
    /\ calls = SubSeq(StageOrder, 1, Len(calls))
    /\ Len(results) <= Len(calls)
    /\ \A i \in 1..Len(calls) : i < Len(calls) => (i <= Len(results) /\ results[i] = "ok")
    /\ InFlight => (Len(results) = Len(calls) - 1 /\ pc = StageOrder[Len(calls)])
    /\ (calls # <<>> /\ ~InFlight /\ ~send_raised) => Len(results) = Len(calls)

\* All three stages were called in one cycle.
C2_Witness == calls = StageOrder /\ results = <<"ok", "ok", "fail">>

\* C3: at most one cycle is in flight per session. While the handler is
\* suspended in a stage call it receives nothing: the frames that arrive
\* stay queued behind those already waiting; frames are received one at a
\* time, in arrival order (the n-th frame received is the n-th frame sent);
\* a cycle starts only on the receipt of a frame, and the audio being
\* processed is not replaced while the cycle is in flight.
C3_OneCycleInFlight ==
    [][ /\ InFlight =>
              /\ nrecv' = nrecv
              /\ cur' = cur
              /\ Len(inbox') >= Len(inbox)
              /\ SubSeq(inbox', 1, Len(inbox)) = inbox
        /\ nrecv' # nrecv =>
              /\ ~InFlight
              /\ nrecv' = nrecv + 1
              /\ cur' = Head(inbox)
              /\ inbox' = Tail(inbox)
              /\ cur'.seq = nrecv'
        /\ (InFlight' /\ ~InFlight) => nrecv' = nrecv + 1
        /\ (InFlight /\ InFlight') => buffered_audio' = buffered_audio
      ]_vars

\* Two frames are waiting at the transport while the cycle is in its last stage.
C3_Witness == pc = "synthesize" /\ Len(inbox) >= 2

\* cur is a text frame whose JSON object has the given type.
CurIsType(t) == cur.kind = "text" /\ JsonLoads(cur.text).ok /\ JsonLoads(cur.text).type = t

TranscriptionFailed == ErrorEvent("transcription_failed", "Failed to transcribe audio")

\* C4: when the transcribe stage fails, generate and synthesize are not
\* called, no transcription or response event is sent, the accumulator is
\* empty, exactly one error event coded transcription_failed is sent and the
\* session is Active in its receive loop, ready for further frames.
C4_TranscriptionFailure ==
    results = <<"fail">> =>
        /\ calls = <<"transcribe">>
        /\ OfType(out, "transcription") = <<>>
        /\ OfType(out, "response") = <<>>
        /\ audio_chunks = <<>> /\ total_bytes = 0
        /\ ~send_raised =>
              /\ out = <<TranscriptionFailed>>
              /\ state = "Active" /\ pc = "recv"

\* A cycle whose transcription failed is over and the session is still Active.
C4_Witness ==
    /\ results = <<"fail">>
    /\ out = <<TranscriptionFailed>>
    /\ state = "Active" /\ pc = "recv"

\* C5 as stated: when generate fails after a successful transcription, the
\* terminal error event has code generation_failed, synthesize is not
\* called, no response is sent and the session stays Active.
C5_GenerationFailedCode ==
    results = <<"ok", "fail">> =>
        /\ calls = <<"transcribe", "generate">>
        /\ OfType(out, "response") = <<>>
        /\ ~send_raised =>
              /\ Len(out) = 2
              /\ out[1] = TranscriptionEvent(transcription)
              /\ out[2].type = "error" /\ out[2].code = "generation_failed"
              /\ state = "Active" /\ pc = "recv"

\* C5, amended: when generate fails after a successful transcription, the
\* terminal error event has code claude_failed, synthesize is not called, no
\* response is sent and the session stays Active.
C5_GenerationFailure ==
    results = <<"ok", "fail">> =>
        /\ calls = <<"transcribe", "generate">>
        /\ OfType(out, "response") = <<>>
        /\ ~send_raised =>
              /\ Len(out) = 2
              /\ out[1] = TranscriptionEvent(transcription)
              /\ out[2].type = "error" /\ out[2].code = "claude_failed"
              /\ state = "Active" /\ pc = "recv"

\* The API call failed on a transcribed text that is in the history.
C5_Witness ==
    /\ results = <<"ok", "fail">>
    /\ transcription = "hello"
    /\ Len(out) = 2 /\ out[2].type = "error"
    /\ state = "Active" /\ pc = "recv"

\* C6: when synthesize fails after transcription and generation succeeded,
\* the terminal event is a response with the generated text (the reply that
\* joined the history) and a null audio field, no error event is sent and
\* the session stays Active.
C6_SynthesisFailure ==
    results = <<"ok", "ok", "fail">> =>
        /\ calls = StageOrder
        /\ OfType(out, "error") = <<>>
        /\ conversation_history # <<>>
        /\ conversation_history[Len(conversation_history)] =
              [role |-> "assistant", content |-> response_text]
        /\ ~send_raised =>
              /\ Len(out) = 2
              /\ out[1] = TranscriptionEvent(transcription)
              /\ out[2].type = "response"
              /\ out[2].text = response_text
              /\ out[2].audio = None
              /\ state = "Active" /\ pc = "recv"

\* The synthesis of a non-blank reply failed and the text went out alone.
C6_Witness ==
    /\ results = <<"ok", "ok", "fail">>
    /\ response_text = "hi there"
    /\ Len(out) = 2 /\ out[2] = ResponseTextOnly("hi there")
    /\ state = "Active" /\ pc = "recv"

\* C7: from the start of a cycle until the next frame is received the
\* accumulator is empty (no chunks, zero bytes), whatever the outcome; and a
\* flush received right after a frame that ran a cycle starts no cycle: it
\* is answered by the info event.
C7_CycleClearsAccumulator ==
    /\ calls # <<>> => (audio_chunks = <<>> /\ total_bytes = 0)
    /\ (before.state = "Active" /\ before.calls # <<>> /\ CurIsType("end_audio")) =>
          /\ calls = <<>>
          /\ before.audio_chunks = <<>> /\ before.total_bytes = 0
          /\ ~send_raised => out = <<InfoEvent>>

\* A flush handled right after a completed cycle.
C7_Witness ==
    /\ before.state = "Active" /\ before.calls # <<>>
    /\ CurIsType("end_audio")
    /\ out = <<InfoEvent>>

\* The accumulator's bytes after cur's data joined what was buffered.
BytesWithCur == before.total_bytes + ByteLen(cur.data)

\* C8 as stated: for every binary frame received while Active, whatever its
\* size, the bytes join the accumulator and then either the accumulator is
\* ready and a cycle runs on all of it, or exactly one buffering event with
\* the buffered and the target duration is sent.
C8_BinaryFrame ==
    (cur.kind = "bytes" /\ before.state = "Active" /\ ~send_raised) =>
        IF BytesWithCur >= window_seconds * bytes_per_second
        THEN /\ calls # <<>>
             /\ OfType(out, "buffering") = <<>>
             /\ buffered_audio = get_audio(before.audio_chunks) \o cur.data
        ELSE /\ calls = <<>>
             /\ total_bytes = BytesWithCur
             /\ get_audio(audio_chunks) = get_audio(before.audio_chunks) \o cur.data
             /\ out = <<[type |-> "buffering",
                         buffered_seconds |-> <<BytesWithCur, bytes_per_second>>,
                         target_seconds |-> window_seconds]>>

\* C9: on a flush in an Active session, a non-empty accumulator is processed
\* as it is, also below the window (the cycle's audio is all that was
\* buffered, and no info event is sent); an empty accumulator gives exactly
\* one info event and no stage call.
C9_Flush ==
    (CurIsType("end_audio") /\ before.state = "Active") =>
        IF before.audio_chunks # <<>>
        THEN /\ calls # <<>>
             /\ buffered_audio = get_audio(before.audio_chunks)
             /\ OfType(out, "info") = <<>>
        ELSE /\ calls = <<>>
             /\ Len(out) <= 1
             /\ ~send_raised => out = <<InfoEvent>>

\* A flush started a cycle on less than a full window.
C9_Witness ==
    /\ CurIsType("end_audio") /\ before.state = "Active"
    /\ before.total_bytes > 0
    /\ before.total_bytes < window_seconds * bytes_per_second
    /\ pc = "transcribe"
    /\ buffered_audio = get_audio(before.audio_chunks)

\* C10: a ping in an Active session is answered by exactly one pong; the
\* accumulator, the history and the lifecycle state are as before and no
\* stage is called.
C10_Ping ==
    (CurIsType("ping") /\ before.state = "Active") =>
        /\ calls = <<>>
        /\ audio_chunks = before.audio_chunks
        /\ total_bytes = before.total_bytes
        /\ conversation_history = before.history
        /\ Len(out) <= 1
        /\ ~send_raised =>
              /\ out = <<PongEvent>>
              /\ state = "Active" /\ pc = "recv"

\* A ping was answered while audio was buffered.
C10_Witness ==
    /\ CurIsType("ping") /\ before.state = "Active"
    /\ out = <<PongEvent>>
    /\ audio_chunks # <<>>

\* The first message was received and the handshake did not verify an access
\* credential from it (a client that just disconnects sent no message).
FirstMessageRefused ==
    nrecv >= 1 /\ accepted = NoCredential /\ cur.kind # "disconnect"

\* C11: a first message that is anything other than a structured message with
\* a valid access credential (a binary frame, a text that is not JSON, JSON
\* without a token, a token that fails verification) gets the connection
\* closed at once with the policy-violation code 1008, and no further frame
\* is processed: nothing else is received, no event is sent, no stage called.
C11_RefusedWithPolicyViolation ==
    FirstMessageRefused =>
        /\ state = "Closed"
        /\ close_code = WS_1008_POLICY_VIOLATION
        /\ nrecv = 1
        /\ out = <<>> /\ calls = <<>>
        /\ audio_chunks = <<>> /\ total_bytes = 0

\* The connection has done something only an authenticated session does: it
\* is Active, holds audio, called a stage, sent an event or added a turn.
SessionEffect ==
    \/ state = "Active"
    \/ audio_chunks # <<>> \/ total_bytes > 0 \/ buffered_audio # <<>>
    \/ calls # <<>> \/ results # <<>>
    \/ out # <<>>
    \/ conversation_history # <<>>

\* The credential is of access kind, signed with a secret of the ring,
\* unexpired at clock reading now, and names a subject.
ValidAccessCredential(token, now) ==
    /\ token.type = "access"
    /\ token.key \in {config.jwt_secret, config.jwt_secret_previous}
    /\ now < token.exp
    /\ token.sub # ""

\* C12: a connection holds audio in its accumulator, has called a stage or
\* has been sent an event only if its handshake earlier accepted a valid
\* access-kind credential (whose subject is the session's identity); and the
\* session becomes Active only in the step that receives the first message,
\* a JSON object whose token is that credential.
C12_EffectsOnlyAfterAuth ==
    /\ [](SessionEffect =>
            /\ accepted # NoCredential
            /\ ValidAccessCredential(accepted.token, accepted.now)
            /\ email = accepted.token.sub)
    /\ [][(state' = "Active" /\ state # "Active") =>
            /\ state = "AwaitingAuth" /\ nrecv = 0 /\ nrecv' = 1
            /\ cur'.kind = "text"
            /\ JsonLoads(cur'.text).has_token
            /\ accepted'.token = JsonLoads(cur'.text).token
            /\ ValidAccessCredential(accepted'.token, accepted'.now)]_vars

\* An authenticated session is buffering audio.
C12_Witness ==
    /\ state = "Active" /\ total_bytes > 0 /\ out # <<>>
    /\ accepted.token = AccessToken

\* A token was passed to _verify_token under the present ring and clock.
TokenChecked == verified.token # NoToken

\* A previous secret is configured.
HasPrevious == config.jwt_secret_previous \notin {None, ""}

SignedWithCurrent(token) == token.key = config.jwt_secret
SignedWithPrevious(token) == HasPrevious /\ token.key = config.jwt_secret_previous

\* The exp claim has passed (jwt.decode: exp <= now).
ExpiredNow(token) == token.exp <= clock

\* C13: an unexpired credential of the expected kind with a non-empty subject
\* verifies, returning its subject, if it is signed with the current secret,
\* and also if it is signed with the configured previous secret; signed with
\* neither (also when no previous secret is configured) it fails with
\* "Invalid token" (BadSignature).
C13_RotationAcceptance ==
    (/\ TokenChecked
     /\ ~ExpiredNow(verified.token)
     /\ verified.token.type = verified.expected_type
     /\ verified.token.sub # "") =>
        /\ SignedWithCurrent(verified.token) =>
              verified.detail = "" /\ verified.sub = verified.token.sub
        /\ SignedWithPrevious(verified.token) =>
              verified.detail = "" /\ verified.sub = verified.token.sub
        /\ (~SignedWithCurrent(verified.token) /\ ~SignedWithPrevious(verified.token)) =>
              verified.detail = "Invalid token" /\ verified.sub = None

\* After a rotation, a token signed with what is now the previous secret was
\* accepted.
C13_Witness ==
    /\ TokenChecked
    /\ config.jwt_secret = "k_other" /\ config.jwt_secret_previous = "k_current"
    /\ verified.token.key = "k_current"
    /\ verified.detail = "" /\ verified.sub = "a@x.org"

\* C14: a credential whose expiry has passed fails with "Token expired"
\* whether it is signed with the current or with the previous secret: the
\* secret that yields the expiry failure is the last one tried (a token
\* signed with the current secret is never tried against the previous one),
\* and the failure is never turned into a success or into "Invalid token".
C14_ExpiredStaysExpired ==
    (/\ TokenChecked
     /\ ExpiredNow(verified.token)
     /\ SignedWithCurrent(verified.token) \/ SignedWithPrevious(verified.token)) =>
        /\ verified.detail = "Token expired"
        /\ verified.sub = None
        /\ verified.tried # <<>>
        /\ verified.tried[Len(verified.tried)] = verified.token.key
        /\ SignedWithCurrent(verified.token) => verified.tried = <<config.jwt_secret>>
        /\ ~SignedWithCurrent(verified.token) =>
              verified.tried = <<config.jwt_secret, config.jwt_secret_previous>>

\* An expired token signed with the current secret was refused while a
\* previous secret was configured.
C14_Witness ==
    /\ TokenChecked /\ HasPrevious
    /\ ExpiredNow(verified.token) /\ SignedWithCurrent(verified.token)
    /\ verified.detail = "Token expired"
    /\ verified.tried = <<config.jwt_secret>>

\* C15: a validly signed, unexpired access credential presented to the
\* refresh exchange fails with "Invalid token type" (WrongKind) and nothing is
\* issued; a validly signed, unexpired refresh credential presented where an
\* access one is required (handshake, current-user lookup) fails with
\* "Invalid token type".
C15_WrongKind ==
    /\ (TokenChecked /\ verified.op = "refresh") => verified.expected_type = "refresh"
    /\ (TokenChecked /\ verified.op \in {"ws", "me"}) => verified.expected_type = "access"
    /\ (/\ TokenChecked
        /\ SignedWithCurrent(verified.token) \/ SignedWithPrevious(verified.token)
        /\ ~ExpiredNow(verified.token)
        /\ verified.token.type # verified.expected_type) =>
           /\ verified.detail = "Invalid token type"
           /\ verified.sub = None
           /\ (verified.op = "refresh" /\ issued.op = "refresh") =>
                 /\ issued.status_code = HTTP_401_UNAUTHORIZED
                 /\ issued.detail = "Invalid token type"
                 /\ issued.access_token = NoToken /\ issued.refresh_token = NoToken

\* The access token of a login was presented to the refresh exchange and refused.
C15_Witness ==
    /\ verified.op = "refresh" /\ issued.op = "refresh"
    /\ verified.token.type = "access" /\ verified.token.exp = 2
    /\ verified.detail = "Invalid token type"
    /\ issued.status_code = HTTP_401_UNAUTHORIZED

\* The detail _verify_token reports when the checks are made in the order
\* signature, expiry, kind, subject and the first failure is reported.
FirstFailure(token, expected_type) ==
    IF ~(SignedWithCurrent(token) \/ SignedWithPrevious(token)) THEN "Invalid token"
    ELSE IF ExpiredNow(token) THEN "Token expired"
    ELSE IF token.type # expected_type THEN "Invalid token type"
    ELSE IF token.sub = "" THEN "Token missing subject"
    ELSE ""

\* C16: verification checks signature, expiry, kind and non-empty subject in
\* that order and reports the first failing check: a badly signed expired
\* token gives "Invalid token", a validly signed expired token of the wrong
\* kind "Token expired", a valid unexpired token of the wrong kind with an
\* empty subject "Invalid token type"; "Token missing subject" is reported
\* only for a token that passes the first three checks.
C16_CheckOrder ==
    TokenChecked =>
        /\ verified.detail = FirstFailure(verified.token, verified.expected_type)
        /\ verified.detail = "Token missing subject" =>
              /\ SignedWithCurrent(verified.token) \/ SignedWithPrevious(verified.token)
              /\ ~ExpiredNow(verified.token)
              /\ verified.token.type = verified.expected_type
              /\ verified.token.sub = ""

\* A validly signed, unexpired token of the wrong kind with an empty subject
\* was refused for its kind.
C16_Witness ==
    /\ TokenChecked
    /\ SignedWithCurrent(verified.token) /\ ~ExpiredNow(verified.token)
    /\ verified.token.type # verified.expected_type /\ verified.token.sub = ""
    /\ verified.detail = "Invalid token type"

\* The token is one of the last AuthResponse.
FreshlyIssued(token) ==
    /\ issued.status_code = HTTP_200_OK
    /\ token \in {issued.access_token, issued.refresh_token} \ {NoToken}

\* C17: every credential issued, access or refresh, is signed with the secret
\* that was current when it was issued, never with the previous one; so a
\* freshly issued credential still verifies when the previous secret has been
\* removed from the ring.
C17_SignedWithCurrent ==
    /\ issued.status_code = HTTP_200_OK =>
          \A token \in {issued.access_token, issued.refresh_token} \ {NoToken} :
             /\ token.key = issued.ring.jwt_secret
             /\ issued.ring.jwt_secret_previous # issued.ring.jwt_secret =>
                   token.key # issued.ring.jwt_secret_previous
    /\ (/\ TokenChecked
        /\ FreshlyIssued(verified.token)
        /\ config.jwt_secret = issued.ring.jwt_secret
        /\ ~HasPrevious
        /\ ~ExpiredNow(verified.token)
        /\ verified.expected_type = verified.token.type) =>
           verified.detail = "" /\ verified.sub = verified.token.sub

\* An access token issued by a login during the grace period of a rotation
\* verified after the previous secret was removed.
C17_Witness ==
    /\ TokenChecked
    /\ issued.op = "google" /\ issued.refresh_token.key = "k_current"
    /\ verified.token = issued.access_token
    /\ issued.ring.jwt_secret_previous = "k_previous"
    /\ config.jwt_secret_previous = None
    /\ verified.detail = ""

\* The bytes the buffer holds: the lengths of its chunks, summed.
BufferedBytes == ByteLen(get_audio(audio_chunks))

\* window seconds x byte-rate, the byte-rate being sample rate x 2.
WindowBytes == window_seconds * (sample_rate * 2)

\* C18: after any sequence of add_chunk calls, the value add_chunk returned
\* and the value of is_ready both equal (total bytes >= window seconds x
\* byte-rate), the byte-rate being sample rate x 2; is_ready changes no
\* state; with 16 kHz and a 5 s window the buffer is not ready at 159,999
\* bytes and ready at 160,000, however the bytes are split into chunks.
C18_ReadyThreshold ==
    /\ [](/\ ret.op = "add_chunk" => ret.value = (BufferedBytes >= WindowBytes)
          /\ ret.op = "is_ready" => ret.value = (BufferedBytes >= WindowBytes)
          /\ is_ready(total_bytes) = (BufferedBytes >= WindowBytes)
          /\ BufferedBytes = 159999 => ~is_ready(total_bytes)
          /\ BufferedBytes = 160000 => is_ready(total_bytes))
    /\ [][ret'.op = "is_ready" =>
            /\ UNCHANGED <<audio_chunks, total_bytes>>
            /\ ret'.value = is_ready(total_bytes')]_vars

\* Three chunks add up to exactly 160,000 bytes and the last add_chunk
\* returned True.
C18_Witness ==
    /\ ret.op = "add_chunk" /\ ret.value
    /\ Len(audio_chunks) = 3 /\ BufferedBytes = 160000
    /\ ret.had_total = 159999

\* The runs of b are in arrival order: their chunk numbers never decrease.
InArrivalOrder(b) == \A i, j \in DOMAIN b : i < j => b[i].src <= b[j].src

\* C19: a drain returns all the buffered bytes, in arrival order, and leaves
\* the buffer as a fresh one: no chunk, no byte, and every next add_chunk,
\* is_ready or drain gives what it gives on a new AudioBuffer.
C19_DrainResets ==
    ret.op = "drain" =>
        /\ ByteLen(ret.audio) = ret.had_total
        /\ InArrivalOrder(ret.audio)
        /\ \A i \in DOMAIN ret.had_chunks :
              \A k \in DOMAIN ret.had_chunks[i] :
                 \E n \in DOMAIN ret.audio : ret.audio[n] = ret.had_chunks[i][k]
        /\ Len(ret.audio) = Len(get_audio(ret.had_chunks))
        /\ audio_chunks = <<>> /\ total_bytes = 0
        /\ is_ready(total_bytes) = is_ready(0)
        /\ get_audio(audio_chunks) = <<>>
        /\ \A size \in BufferChunkSizes :
              add_chunk(audio_chunks, total_bytes, ByteRun(1, size))
                 = add_chunk(<<>>, 0, ByteRun(1, size))

\* A full window held in three chunks was drained.
C19_Witness ==
    /\ ret.op = "drain"
    /\ Len(ret.had_chunks) = 3 /\ Len(ret.audio) = 3
    /\ ret.had_total >= WindowBytes

\* C20: after any number of additions the history holds at most 20 entries,
\* and they are exactly the most recently added ones in their original
\* order: the oldest entries are the ones evicted.
C20_HistoryCap ==
    /\ Len(conversation_history) <= HistoryCap
    /\ Len(conversation_history) <= added
    /\ \A i \in DOMAIN conversation_history :
          /\ conversation_history[i].content = added - Len(conversation_history) + i
          /\ conversation_history[i].role = RoleOf(conversation_history[i].content)

\* Entries were evicted: 23 added, the last 20 kept.
C20_Witness ==
    /\ added = HistoryCap + 3
    /\ Len(conversation_history) = HistoryCap
    /\ conversation_history[1].content = 4

\* C21: a session's conversation history belongs to that session alone: a
\* new session starts with an empty history, and the history passed to the
\* generate stage in a session holds only turns produced in that session.
C21_HistoryPerSession ==
    /\ \A c \in Conns : sessions[c].found = <<>>
    /\ \A i \in DOMAIN passed.messages :
          passed.messages[i].content.conn = passed.conn

\* fraction a > fraction b (over a common denominator the numerators decide)
DurationGT(a, b) ==
    IF a[2] = b[2] THEN a[1] > b[1] ELSE a[1] * b[2] > b[1] * a[2]

\* The accumulator's chunks after frames 2..n brought one second of audio each.
OneSecondChunks(n) == [i \in 1..(n - 1) |-> ByteRun(i + 1, bytes_per_second)]

\* The loop handled the audio chunk cur, which reached the window, and is
\* back at receive(): the cycle the chunk started is over.
WindowChunkDone ==
    /\ state = "Active" /\ pc = "recv"
    /\ cur.kind = "bytes" /\ cur.data # <<>>
    /\ before.total_bytes + ByteLen(cur.data) >= WindowBytes

C23_NoStartWithoutSecret ==
    SecretMissing =>
        /\ phase # "serving"
        /\ issued = NoIssue
        /\ ~upgrade.accepted

\* C24: with the origin allowlist missing and debug off the service does not
\* start (no request is answered, no connection accepted); with it missing
\* and debug on the service starts and allows all origins, in the CORS
\* middleware and for the WebSocket upgrade.
C24_OriginAllowlist ==
    /\ phase = "importing" => (issued = NoIssue /\ upgrade = NoUpgrade)
    /\ (phase # "importing" /\ config.cors_origins = {}) =>
          IF config.debug
          THEN /\ phase = "serving"
               /\ allow_origins = {"*"}
               /\ upgrade.origin # None => upgrade.accepted
          ELSE /\ phase = "exited"
               /\ issued = NoIssue
               /\ upgrade = NoUpgrade

\* A debug deployment without allowlist serves, and accepted the upgrade of
\* a page of any origin.
C24_Witness ==
    /\ config.cors_origins = {} /\ config.debug
    /\ phase = "serving" /\ allow_origins = {"*"}
    /\ upgrade.origin = "https://evil" /\ upgrade.accepted

\* C25: the wait for the first message is bounded: an accepted connection
\* whose client never sends it is eventually closed by the server.
C25_AuthWaitBounded == <>(nsent > 0 \/ state = "Closed")

\* The text is not valid JSON, or JSON that is not an object, or an object
\* whose type is neither end_audio nor ping.
Malformed(text) ==
    \/ ~JsonLoads(text).ok
    \/ ~JsonLoads(text).obj
    \/ JsonLoads(text).type \notin {"end_audio", "ping"}

\* C26: a malformed structured frame received in an Active session closes the
\* connection at once; the session handles no frame after it.
C26_MalformedCloses ==
    (before.state = "Active" /\ cur.kind = "text" /\ Malformed(cur.text)) =>
        state = "Closed"

\* The identity-assertion exchange answered an assertion that verified and
\* named the identity.
LoginFor(identity) ==
    issued.op = "google" /\ issued.identity = identity /\ identity # None

\* C27: the identity-assertion exchange issues an access+refresh pair only
\* when the assertion verifies and its identity is on the allowlist, the pair
\* being for that identity; for an identity not on the allowlist the request
\* is rejected (403) and no credential is issued.
C27_LoginGatedByAllowlist ==
    issued.op = "google" =>
        /\ issued.status_code = HTTP_200_OK =>
              /\ issued.identity # None
              /\ issued.identity \in config.allowlist
              /\ issued.access_token.type = "access"
              /\ issued.refresh_token.type = "refresh"
              /\ issued.access_token.sub = issued.identity
              /\ issued.refresh_token.sub = issued.identity
        /\ issued.status_code # HTTP_200_OK =>
              /\ issued.access_token = NoToken
              /\ issued.refresh_token = NoToken
        /\ (issued.identity # None /\ issued.identity \notin config.allowlist) =>
              /\ issued.status_code = HTTP_403_FORBIDDEN
              /\ issued.detail = "Email not authorized"
        /\ (issued.identity # None /\ issued.identity \in config.allowlist
                                   /\ ~SecretMissing) =>
              issued.status_code = HTTP_200_OK

\* A verified assertion of an identity that is not on the allowlist was
\* rejected with nothing issued.
C27_Witness ==
    /\ LoginFor("b@x.org")
    /\ issued.status_code = HTTP_403_FORBIDDEN
    /\ issued.access_token = NoToken /\ issued.refresh_token = NoToken

\* The credential is of refresh kind, signed with a secret of the ring,
\* unexpired now, and names a subject.
ValidRefreshCredential(token) ==
    /\ token.type = "refresh"
    /\ SignedWithCurrent(token) \/ SignedWithPrevious(token)
    /\ ~ExpiredNow(token)
    /\ token.sub # ""

\* The refresh exchange was the last request answered and the last to
\* verify a token: verified and issued are of the same call.
RefreshAnswered == verified.op = "refresh" /\ issued.op = "refresh"

\* C28: the refresh exchange accepts only a valid refresh-kind credential and
\* returns a new access-kind credential for the same subject and no refresh
\* credential; an invalid refresh credential is rejected as unauthorized
\* (401) with nothing issued.
C28_RefreshExchange ==
    /\ issued.op = "refresh" => issued.refresh_token = NoToken
    /\ RefreshAnswered =>
          IF ValidRefreshCredential(verified.token)
          THEN /\ issued.status_code = HTTP_200_OK
               /\ issued.access_token.type = "access"
               /\ issued.access_token.sub = verified.token.sub
               /\ issued.access_token.key = config.jwt_secret
               /\ issued.access_token.exp > clock
          ELSE /\ issued.status_code = HTTP_401_UNAUTHORIZED
               /\ issued.access_token = NoToken

\* The refresh token of a login was exchanged for a new access token.
C28_Witness ==
    /\ RefreshAnswered
    /\ verified.token.type = "refresh" /\ verified.token.exp > 1
    /\ issued.status_code = HTTP_200_OK
    /\ issued.access_token.sub = "a@x.org"
    /\ issued.refresh_token = NoToken

\* C29: after the server accepted the credential of the handshake it sends
\* the client a confirmation before any audio frame: once the session is
\* Active and no further frame has been received, a message has gone out.
C29_AuthConfirmation ==
    (state = "Active" /\ nrecv = 1) => out # <<>>

\* The expiry instant of the credential the handshake accepted had passed at
\* clock reading now.
AcceptedExpiredAt(now) == accepted # NoCredential /\ now >= accepted.token.exp

\* C30: a session authenticates exactly once. The credential is verified at
\* the handshake only: once the session is Active its credential and identity
\* never change and it is never closed as a policy violation; the passing of
\* time, the credential's expiry instant included, is no transition of the
\* session; and frames received after the expiry are handled as before it
\* (the session ends only on a disconnect or a failed send, an audio chunk
\* below the window is answered by its buffering event).
C30_AuthenticatesOnce ==
    /\ [](state = "Active" =>
             /\ accepted # NoCredential
             /\ accepted.now < accepted.token.exp
             /\ email = accepted.token.sub)
    /\ [][state = "Active" =>
             /\ accepted' = accepted
             /\ email' = email
             /\ close_code' # WS_1008_POLICY_VIOLATION
             /\ clock' # clock => UNCHANGED sessionVars
             /\ state' = "Closed" => (cur'.kind = "disconnect" \/ send_raised')
             /\ (/\ AcceptedExpiredAt(clock)
                 /\ cur'.seq # cur.seq /\ cur'.kind = "bytes" /\ cur'.data # <<>>
                 /\ total_bytes + ByteLen(cur'.data) < WindowBytes
                 /\ ~send_raised')
                => /\ state' = "Active"
                   /\ out' = <<BufferingEvent(total_bytes + ByteLen(cur'.data))>>]_vars

\* The session received an audio chunk after its credential had expired and
\* answered it with a buffering event.
C30_Witness ==
    /\ state = "Active" /\ nrecv >= 2
    /\ AcceptedExpiredAt(before.clock)
    /\ cur.kind = "bytes"
    /\ out # <<>> /\ out[1].type = "buffering"

\* The frame cur was received by the loop of an Active session.
ReceivedActive == before.state = "Active" /\ cur # NoFrame

\* cur is a text frame holding JSON that is not an object: text_data.get
\* raises AttributeError, which nothing in the loop body handles.
CurRaises ==
    cur.kind = "text" /\ cur.text # "" /\ JsonLoads(cur.text).ok
                      /\ ~JsonLoads(cur.text).obj

\* C31 as stated: every send that fails while a frame is handled leads to
\* Closed with the server-error signal 1011.
C31_FailedSendIsServerError ==
    send_raised => (state = "Closed" /\ close_code = WS_1011_SERVER_ERROR)

\* C31: from Active, a client disconnect leads to Closed (no close frame is
\* sent), an exception raised while handling a frame leads to Closed with the
\* server-error signal 1011, and a send that fails leads to Closed, with
\* 1011 unless the failure is the client's disconnect itself; an Active
\* session is closed for no other reason. Closed is absorbing: after it no
\* frame is received, no stage is called and no event is sent.
C31_ActiveToClosed ==
    /\ [](/\ (ReceivedActive /\ cur.kind = "disconnect") =>
                (state = "Closed" /\ close_code = 0 /\ out = <<>> /\ calls = <<>>)
          /\ (ReceivedActive /\ CurRaises) =>
                (state = "Closed" /\ close_code = WS_1011_SERVER_ERROR)
          /\ send_raised =>
                (state = "Closed" /\ close_code \in {0, WS_1011_SERVER_ERROR})
          /\ (ReceivedActive /\ state = "Closed") =>
                (cur.kind = "disconnect" \/ CurRaises \/ send_raised)
          /\ state = "Closed" => pc = "done")
    /\ [][state = "Closed" =>
             /\ state' = "Closed"
             /\ UNCHANGED <<nrecv, inbox, cur, calls, results, out, close_code,
                            audio_chunks, total_bytes, conversation_history>>]_vars

\* A send to a client that had left failed and the session was closed with
\* 1011, a frame of the client still unread.
C31_Witness ==
    /\ ReceivedActive /\ state = "Closed"
    /\ send_raised /\ close_code = WS_1011_SERVER_ERROR
    /\ inbox # <<>>

\* The upgrade request came from an origin that the configured allowlist
\* does not hold.
OriginDisallowed ==
    /\ upgrade.origin # None
    /\ config.cors_origins # {}
    /\ upgrade.origin \notin config.cors_origins

\* C32: a connection attempt whose origin is not in the configured allowlist
\* is closed with 1008 before it is accepted: it is never in AwaitingAuth or
\* Active, no message of it is read and nothing is verified; a connection is
\* in AwaitingAuth or Active only after its origin passed; and with no
\* allowlist configured (debug) every origin is admitted to the handshake.
C32_OriginGate ==
    /\ OriginDisallowed =>
          /\ state = "Closed" /\ close_code = WS_1008_POLICY_VIOLATION
          /\ ~upgrade.accepted
          /\ nsent = 0 /\ nrecv = 0 /\ cur = NoFrame
          /\ accepted = NoCredential /\ email = None
    /\ state \in {"AwaitingAuth", "Active"} =>
          (upgrade.accepted /\ ~OriginDisallowed)
    /\ nrecv > 0 => upgrade.accepted
    /\ (upgrade.origin # None /\ config.cors_origins = {}) =>
          /\ config.debug
          /\ upgrade.accepted
          /\ state = "Closed" => nrecv = 1

\* A page of a foreign origin asked for a connection to a deployment with an
\* allowlist and was closed with 1008.
C32_Witness ==
    /\ upgrade.origin = "https://evil" /\ config.cors_origins = {"https://app"}
    /\ state = "Closed" /\ close_code = WS_1008_POLICY_VIOLATION

\* s is a prefix of t
IsPrefix(s, t) == Len(s) <= Len(t) /\ SubSeq(t, 1, Len(s)) = s

\* A cycle was started for cur and no send of it has failed.
CycleOfCur == calls # <<>> /\ ~send_raised

\* C33: in every cycle a transcription event carrying the transcribed text is
\* emitted if and only if the transcribe stage succeeded; it is the first
\* event of the cycle, out before the generate stage is invoked and so before
\* the terminal event, also when generate or synthesize fails afterwards; and
\* the events of a cycle go out in the order they were generated (what was
\* sent is never reordered or withdrawn).
C33_TranscriptionEvent ==
    /\ [](CycleOfCur =>
            /\ (results # <<>> /\ results[1] = "ok") =>
                  /\ OfType(out, "transcription") = <<TranscriptionEvent(transcription)>>
                  /\ out[1] = TranscriptionEvent(transcription)
            /\ (results = <<>> \/ results[1] = "fail") =>
                  OfType(out, "transcription") = <<>>
            /\ Len(calls) >= 2 =>
                  (results[1] = "ok" /\ out[1].type = "transcription")
            /\ Terminals(out) # <<>> =>
                  /\ out[Len(out)].type \in {"response", "error"}
                  /\ Len(Terminals(out)) = 1)
    /\ [][(cur' = cur /\ calls # <<>>) =>
            /\ IsPrefix(out, out')
            /\ IsPrefix(calls, calls')
            /\ (Len(calls') > Len(calls) /\ calls'[Len(calls')] = "generate")
                  => (out' # <<>> /\ out'[1] = TranscriptionEvent(transcription'))]_vars

\* The transcription "hello" went out, then the generate stage failed and
\* the cycle ended with its error event.
C33_Witness ==
    /\ CycleOfCur /\ pc = "recv"
    /\ results = <<"ok", "fail">>
    /\ out = <<TranscriptionEvent("hello"),
               ErrorEvent("claude_failed", "AI response failed")>>

\* sum(len(c) for c in chunks)
RECURSIVE SumLen(_)
SumLen(chunks) ==
    IF chunks = <<>> THEN 0 ELSE ByteLen(Head(chunks)) + SumLen(Tail(chunks))

\* C34: in every reachable state of an accumulator, after any sequence of
\* add_chunk and clear calls, total_bytes equals the sum of the lengths of
\* the buffered chunks, and the duration it reports is that sum over the
\* byte-rate (sample rate x 2 bytes).
C34_TotalIsSumOfChunks ==
    /\ total_bytes = SumLen(audio_chunks)
    /\ ret.op = "buffer_duration" =>
          /\ ret.duration = <<SumLen(ret.had_chunks), sample_rate * 2>>
          /\ audio_chunks = ret.had_chunks

\* The duration of three chunks of different sizes was read.
C34_Witness ==
    /\ ret.op = "buffer_duration"
    /\ Len(ret.had_chunks) = 3
    /\ ret.duration = <<1 + 79999 + 80000, 32000>>

\* The chunks joined in the order they are held, computed apart from
\* get_audio.
Joined(chunks) ==
    LET RECURSIVE upto(_)
        upto(n) == IF n = 0 THEN <<>> ELSE upto(n - 1) \o chunks[n]
    IN  upto(Len(chunks))

\* Every run of b comes from a later frame than the run before it: no frame's
\* bytes appear twice or out of order.
EachFrameOnce(b) == \A i, j \in DOMAIN b : i < j => b[i].src < b[j].src

\* The audio bytes the frame f carries.
AudioOf(f) == IF f.kind = "bytes" THEN f.data ELSE <<>>

\* C35: the bytes handed to the transcribe stage in a cycle are exactly the
\* bytes received since the previous drain (or since the session became
\* Active), joined in arrival order.  Every frame received while Active adds
\* its audio bytes at the end of what is held, or starts a cycle that takes
\* all that is held followed by the frame's own bytes and leaves nothing
\* behind; no other step touches the held bytes or the bytes handed over; and
\* the bytes held now all come from later frames than the bytes of the last
\* cycle, so none is transcribed twice, reordered or carried over.
C35_CycleBytes ==
    /\ [](EachFrameOnce(buffered_audio \o Joined(audio_chunks)))
    /\ [][IF state = "Active" /\ nrecv' = nrecv + 1
          THEN IF calls' # <<>>
               THEN /\ buffered_audio' = Joined(audio_chunks) \o AudioOf(cur')
                    /\ audio_chunks' = <<>>
                    /\ total_bytes' = 0
               ELSE /\ Joined(audio_chunks') = Joined(audio_chunks) \o AudioOf(cur')
                    /\ buffered_audio' = buffered_audio
          ELSE /\ audio_chunks' = audio_chunks
               /\ buffered_audio' = buffered_audio]_vars

\* Frame 3 started a cycle that drained the accumulator; frame 4 then filled
\* a window alone, and its cycle was handed frame 4's bytes only.
C35_Witness ==
    /\ cur.seq = 4 /\ InFlight
    /\ before.calls # <<>>
    /\ before.audio_chunks = <<>>
    /\ buffered_audio = ByteRun(4, 160000)

\* C36: whenever an Active session waits for its next inbound frame, its
\* accumulator is not ready: the bytes it holds, and the total it counts, are
\* strictly below the target window; and every buffering event sent reports
\* buffered_seconds strictly below target_seconds.
C36_NotReadyWhileWaiting ==
    /\ (state = "Active" /\ pc = "recv") =>
          /\ total_bytes < WindowBytes
          /\ BufferedBytes < WindowBytes
          /\ ~is_ready(total_bytes)
    /\ \A i \in DOMAIN out :
          out[i].type = "buffering" =>
             out[i].buffered_seconds[1] < out[i].target_seconds * out[i].buffered_seconds[2]

\* The session waits with four seconds buffered, one second short of the
\* window, having just reported them.
C36_Witness ==
    /\ state = "Active" /\ pc = "recv"
    /\ total_bytes = 128000
    /\ Len(audio_chunks) >= 2
    /\ out = <<BufferingEvent(128000)>>

\* Handler h has entered the voice chat loop (and may have left since).
Entered(h) == singletons.handler[h].got # NoServices

\* C37: whatever the interleaving of the authenticating handlers, each of the
\* three services is constructed at most once in the process, and every
\* session that enters the loop holds the one instance of each service, the
\* same as every other session and as the module-level global.
C37_ConstructedOnce ==
    \A s \in ServiceNames :
        /\ singletons.built[s] <= 1
        /\ singletons.inst[s] = singletons.built[s]
        /\ \A h \in Handlers :
              Entered(h) =>
                 /\ singletons.handler[h].got[s] = 1
                 /\ singletons.handler[h].got[s] = singletons.inst[s]
        /\ \A h1, h2 \in Handlers :
              (Entered(h1) /\ Entered(h2)) =>
                 singletons.handler[h1].got[s] = singletons.handler[h2].got[s]

\* One handler was closed because a service constructor raised; two others
\* are in the loop at the same time, with the same three instances.
C37_Witness ==
    /\ \E h \in Handlers : singletons.handler[h].close_code = WS_1011_SERVER_ERROR
    /\ \E h1, h2 \in Handlers :
          /\ h1 # h2
          /\ singletons.handler[h1].pc = "active"
          /\ singletons.handler[h2].pc = "active"
          /\ singletons.handler[h1].got = [s \in ServiceNames |-> 1]
          /\ singletons.handler[h2].got = singletons.handler[h1].got

\* The generate call of the cycle of cur was made and failed.
GenerateFailed ==
    /\ Len(calls) >= 2 /\ calls[2] = "generate"
    /\ Len(results) >= 2 /\ results[2] = "fail"

\* Every user entry of h is followed by an assistant entry.
CompleteTurns(h) ==
    \A i \in DOMAIN h :
        h[i].role = "user" => (i < Len(h) /\ h[i + 1].role = "assistant")

\* C38: the conversation history grows only by complete (user, assistant)
\* turns: after a cycle whose generate stage failed the history is what it
\* was when the cycle's frame was received, and whenever no generate call is
\* in progress every user entry of the history is followed by its assistant
\* reply.
C38_CompleteTurnsOnly ==
    /\ GenerateFailed => conversation_history = before.history
    /\ pc # "generate" => CompleteTurns(conversation_history)

\* The subject of the refresh credential just exchanged is not on the
\* allowlist in force.
RefreshedOffAllowlist ==
    /\ RefreshAnswered
    /\ verified.token.sub \notin config.allowlist

\* C39: only the identity-assertion exchange consults the allowlist. Whatever
\* the allowlist in force, the refresh exchange issues an access credential
\* for the subject of a refresh credential exactly when that credential is
\* validly signed, unexpired and carries a subject; so an identity removed
\* from the allowlist keeps obtaining access credentials until its refresh
\* credential expires. The access-credential checks of /auth/me and of the
\* WebSocket handshake likewise depend on the credential alone.
C39_AllowlistOnlyAtLogin ==
    /\ RefreshAnswered =>
          IF ValidRefreshCredential(verified.token)
          THEN /\ issued.status_code = HTTP_200_OK
               /\ issued.access_token.type = "access"
               /\ issued.access_token.sub = verified.token.sub
               /\ issued.access_token.exp > clock
          ELSE /\ issued.status_code = HTTP_401_UNAUTHORIZED
               /\ issued.access_token = NoToken
    /\ (verified.op \in {"me", "ws"} /\ verified.token # NoToken) =>
          (verified.detail = "" <=>
              /\ verified.token.type = "access"
              /\ SignedWithCurrent(verified.token) \/ SignedWithPrevious(verified.token)
              /\ ~ExpiredNow(verified.token)
              /\ verified.token.sub # "")

\* a@x.org logged in while on the allowlist, was removed from it, and then
\* exchanged the refresh credential of that login for an access credential.
C39_Witness ==
    /\ RefreshedOffAllowlist
    /\ config.allowlist = {}
    /\ verified.token.sub = "a@x.org" /\ verified.token.exp > 1
    /\ issued.status_code = HTTP_200_OK
    /\ issued.access_token.sub = "a@x.org"

====
